---------------------------- MODULE Spec2Model ----------------------------
(***************************************************************************)
(* A model of shaih/fetch-by-similarity: the slot-replication tree         *)
(* (slot_replication.cpp), the strided running sums (running_sums.cpp) and *)
(* the server pipeline (server_encrypted_compute.cpp).                     *)
(*                                                                         *)
(* A ciphertext is modelled by what it decrypts to: a tuple of slot values *)
(* (slot s of the code is index s+1 of the tuple) and its level.            *)
(***************************************************************************)
EXTENDS Integers, Sequences, FiniteSets, TLC

VARIABLES
  rphase,    \* replication tree: "new", "built", "failed", "batched"
  rargs,     \* the constructor's arguments (num_slots, tree_degrees, input_replication)
  nodes,     \* the chain of ReplicatorNode objects, root first, handle last
  src,       \* the ciphertext given to the last init() that was not null
  ret,       \* the value returned by the last init() / next_replica()
  produced,  \* non-null replicas returned since the last non-null init()
  rots,      \* rotation amounts the tree passed to the backend so far
  lastop,    \* the last operation: "none", "ctor", "init", "init_null", "next", "batch"
  batch,     \* outcome of batch_replicate
  before,    \* the stream the last non-null init() replaced: its source and count
  sphase,    \* running sums: "new", "built", "failed", "trapped", "static", "evaluated"
  sargs,     \* the arguments (n_slots, stride, depth_budget, level)
  rs_masks,  \* RunningSums::masks: per phase, a map shift amount -> mask
  shifts,    \* outcome of get_shift_amounts (static, or of the object)
  inputs,    \* the ciphertexts given to eval_in_place
  ctxts,     \* the same vector after eval_in_place
  srots,     \* rotation amounts eval_in_place passed to the backend
  world,     \* server: instance parameters, dataset, flags and files of the run
  pc,        \* server: "off", "start", "loaded", "scored", "thresholded",
             \*   "ranked", "done", "failed"
  steps,     \* server: the log_step labels written so far
  eqry,      \* server: the query ciphertext read from query.bin
  result,    \* server: the vector `result` of main
  enum_i,    \* server: the loop variable i of the match enumeration
  accumulator, \* server: the outer accumulator of the match enumeration
  results_bin, \* server: the ciphertexts written to results.bin, in order
  reads,     \* server: the files main tried to read
  relin,     \* server: the multiply / relinearize events of mat_vec_mult
  xrots,     \* server: rotation amounts main passed to the backend
  call,      \* client programs and helpers: the last call and its arguments
  outcome,   \* what that call returned, threw or exited with
  rk_bin,    \* the automorphism keys that key generation wrote to rk.bin
  io_results_bin \* post-processing: the record lists written to io/results.bin

repVars == <<rphase, rargs, nodes, src, ret, produced, rots, lastop, batch, before>>

rsVars == <<sphase, sargs, rs_masks, shifts, inputs, ctxts, srots>>

srvVars == <<world, pc, steps, eqry, result, enum_i, accumulator,
             results_bin, reads, relin, xrots>>

cliVars == <<call, outcome, rk_bin, io_results_bin>>

vars == <<rphase, rargs, nodes, src, ret, produced, rots, lastop, batch, before,
          sphase, sargs, rs_masks, shifts, inputs, ctxts, srots,
          world, pc, steps, eqry, result, enum_i, accumulator,
          results_bin, reads, relin, xrots,
          call, outcome, rk_bin, io_results_bin>>

----------------------------------------------------------------------------
(* Bounds of the model *)

MaxSlots == 8        \* slot counts 1..MaxSlots
MaxDepth == 3        \* tree-degree sequences of length 1..MaxDepth
MaxDeg == 4          \* degrees up to MaxDeg (and the flat degree num_slots)
MaxNegDeg == 1       \* degrees down to -MaxNegDeg
NumInputs == 2       \* distinct periodic input ciphertexts
MaxLogSlots == 3     \* running sums: slot counts 1..2^MaxLogSlots
MaxCtxts == 3        \* running sums: vectors of 1..MaxCtxts ciphertexts
MaxTopLevel == 1     \* running sums: top_level in 0..MaxTopLevel
MaxCols == 2         \* server: ring dimensions 128*C, C a power of two <= MaxCols
MaxBatches == 2      \* server: 1..MaxBatches ciphertexts per dataset row
MaxRecords == 128    \* server: datasets of at most MaxRecords records
MaxLogDim == 2       \* server: record dimensions 2..2^MaxLogDim
MaxPad == 3          \* server: a last batch full or short of MaxPad records
MaxRun == 9          \* server: runs of up to MaxRun hot records

----------------------------------------------------------------------------
(* C++ integer arithmetic *)

Abs(a) == IF a < 0 THEN -a ELSE a

\* int / int truncates towards zero
CDiv(a, b) ==
  LET q == Abs(a) \div Abs(b)
  IN IF (a < 0) # (b < 0) THEN -q ELSE q

\* int % int has the sign of the dividend
CMod(a, b) == a - b * CDiv(a, b)

RECURSIVE Product(_)
Product(s) == IF s = <<>> THEN 1 ELSE Head(s) * Product(Tail(s))

RECURSIVE MaxElement(_)
MaxElement(s) ==
  IF Len(s) = 1 THEN s[1]
  ELSE LET m == MaxElement(Tail(s)) IN IF s[1] >= m THEN s[1] ELSE m

SeqToSet(s) == {s[i] : i \in 1..Len(s)}

----------------------------------------------------------------------------
(* The HE backend, by its effect on the slots and on the level *)

Null == [slots |-> <<>>, level |-> 0]

\* The ciphertext object an operation returns: the value equal to ct
Ciphertext(ct) == CHOOSE c \in {ct} : c = ct

\* Statements run in order: first is computed before rest is
AndThen(first, rest) == IF first = first THEN rest ELSE rest

\* Rotate(ct, k): slot i receives former slot (i + k) mod S
EvalRotate(ct, k) ==
  Ciphertext(LET S == Len(ct.slots)
             IN [slots |-> [s \in 1..S |-> ct.slots[((s - 1 + k) % S) + 1]],
                 level |-> ct.level])

\* The hoisted rotation: the same automorphism, computed from the digits
EvalFastRotation(ct, k) == EvalRotate(ct, k)

\* ciphertext times plaintext: slot-wise, consumes one level
EvalMultPlain(ct, pt) ==
  Ciphertext([slots |-> [s \in 1..Len(ct.slots) |-> ct.slots[s] * pt[s]],
              level |-> ct.level + 1])

EvalAdd(a, b) ==
  Ciphertext([slots |-> [s \in 1..Len(a.slots) |-> a.slots[s] + b.slots[s]],
              level |-> IF a.level >= b.level THEN a.level ELSE b.level])

----------------------------------------------------------------------------
(* ReplicatorNode *)

generate_masks_FirstBlock(nslots, num_replicas, rot_amt) ==
  [i \in 1..num_replicas |->
     [s \in 1..nslots |->
        IF \E j \in 0..(rot_amt - 1) : s - 1 = (i - 1) * rot_amt + j
        THEN 1 ELSE 0]]

\* generate_masks: mask i is 1 on the runs of length rot_amt that start at
\* b*block_size + i*rot_amt.  masks[i] of the code is index i+1 here.
generate_masks(nslots, num_replicas, rot_amt) ==
  LET block_size == rot_amt * num_replicas
      nblocks == nslots \div block_size
  IN [i \in 1..num_replicas |->
        [s \in 1..nslots |->
           IF \E b \in 0..(nblocks - 1), j \in 0..(rot_amt - 1) :
                s - 1 = b * block_size + (i - 1) * rot_amt + j
           THEN 1 ELSE 0]]

\* The constructor: a node without a source (current = num_replicas).
\* "throw" is the invalid_argument of line 46, "abort" the failed assert
\* of generate_masks.
ReplicatorNode_NoDegreeCheck(nslots, nreps, amt) ==
  IF amt * nreps = 0 \/ CMod(nslots, amt * nreps) # 0 THEN [st |-> "abort"]
  ELSE [st |-> "ok",
        node |-> [num_replicas |-> nreps,
                  current |-> nreps,
                  rot_amt |-> amt,
                  shifts |-> [i \in 1..nreps |-> Null],
                  masks |-> generate_masks(nslots, nreps, amt)]]

ReplicatorNode(nslots, nreps, amt) ==
  IF nreps < 2 THEN [st |-> "throw"]
  ELSE IF amt * nreps = 0 \/ CMod(nslots, amt * nreps) # 0 THEN [st |-> "abort"]
  ELSE [st |-> "ok",
        node |-> [num_replicas |-> nreps,
                  current |-> nreps,
                  rot_amt |-> amt,
                  shifts |-> [i \in 1..nreps |-> Null],
                  masks |-> generate_masks(nslots, nreps, amt)]]

\* install_source that keeps the rotations a node already holds
install_source_Stale(n, ct) ==
  [node |-> [n EXCEPT
               !.shifts = [i \in 1..n.num_replicas |->
                             IF i = 1 THEN ct
                             ELSE IF n.shifts[i] # Null THEN n.shifts[i]
                             ELSE EvalRotate(ct, -((i - 1) * n.rot_amt))],
               !.current = 0],
   rots |-> {-(i * n.rot_amt) : i \in 1..(n.num_replicas - 1)}]

\* install_source with the rotations to the other side
install_source_Leftward(n, ct) ==
  [node |-> [n EXCEPT
               !.shifts = [i \in 1..n.num_replicas |->
                             IF i = 1 THEN ct
                             ELSE EvalRotate(ct, (i - 1) * n.rot_amt)],
               !.current = 0],
   rots |-> {(i * n.rot_amt) : i \in 1..(n.num_replicas - 1)}]

\* install_source: shifts[0] = ct and shifts[i] = rotate(ct, -i*rot_amt), by
\* EvalRotate in a degree-2 node and by hoisted EvalFastRotation otherwise;
\* then current = 0.  Returns the node and the rotation amounts requested.
install_source(n, ct) ==
  LET amt(i) == -(i * n.rot_amt)
  IN [node |-> [n EXCEPT
                  !.shifts = [i \in 1..n.num_replicas |->
                                IF i = 1 THEN ct
                                ELSE IF n.num_replicas = 2
                                     THEN EvalRotate(ct, -n.rot_amt)
                                     ELSE EvalFastRotation(ct, amt(i - 1))],
                  !.current = 0],
      rots |-> IF n.num_replicas = 2 THEN {-n.rot_amt}
               ELSE {amt(i) : i \in 1..(n.num_replicas - 1)}]

mask_index_NoCurrent(i, current, num_replicas) == i % num_replicas

\* The index of the mask that multiplies shifts[i] when `current` replicas
\* were already returned
mask_index(i, current, num_replicas) == (i + current) % num_replicas

RECURSIVE SumCts(_, _)
SumCts(f, k) == IF k = 1 THEN f[1] ELSE EvalAdd(SumCts(f, k - 1), f[k])

\* Lines 124-137 of next_replica: acc = sum_i shifts[i] * masks[(i+current) % f]
emit(n) ==
  SumCts([i \in 1..n.num_replicas |->
            EvalMultPlain(n.shifts[i],
                          n.masks[mask_index(i - 1, n.current, n.num_replicas) + 1])],
         n.num_replicas)

needs_source_OffByOne(n) == n.current > n.num_replicas

\* Line 114: current == num_replicas signals a missing source
needs_source(n) == n.current = n.num_replicas

end_of_stream_Rewind(ns) ==
  [nodes |-> [ns EXCEPT ![1].current = 0], ret |-> Null, rots |-> {}]

\* Lines 115-117: the root needs a source and has no parent, return nullptr
end_of_stream(ns) == [nodes |-> ns, ret |-> Null, rots |-> {}]

\* next_replica on node i of the chain ns; the parent of node i is node i-1
\* and the root (i = 1) has none.  Returns the new chain, the returned
\* ciphertext and the rotations requested.
RECURSIVE next_replica(_, _)
next_replica(ns, i) ==
  LET n == ns[i]
      out(ms, rs) == [nodes |-> [ms EXCEPT ![i].current = ms[i].current + 1],
                      ret |-> emit(ms[i]),
                      rots |-> rs]
  IN IF needs_source(n)
     THEN IF i = 1
          THEN end_of_stream(ns)
          ELSE LET up == next_replica(ns, i - 1)
               IN IF up.ret = Null
                  THEN [nodes |-> up.nodes, ret |-> Null, rots |-> up.rots]
                  ELSE LET inst == install_source(up.nodes[i], up.ret)
                       IN out([up.nodes EXCEPT ![i] = inst.node],
                              up.rots \cup inst.rots)
     ELSE out(ns, {})

\* init on node i
RECURSIVE init(_, _, _)
init(ns, i, ct) ==
  IF ct = Null
  THEN [nodes |-> ns, ret |-> Null, rots |-> {}]
  ELSE IF i = 1
       THEN LET inst == install_source(ns[1], ct)
                r == next_replica([ns EXCEPT ![1] = inst.node], 1)
            IN [r EXCEPT !.rots = r.rots \cup inst.rots]
       ELSE LET up == init(ns, i - 1, ct)
                inst == install_source(up.nodes[i], up.ret)
                r == next_replica([up.nodes EXCEPT ![i] = inst.node], i)
            IN [r EXCEPT !.rots = r.rots \cup up.rots \cup inst.rots]

----------------------------------------------------------------------------
(* DFSSlotReplicator *)

\* The loop of lines 208-213 from the k-th degree on
RECURSIVE BuildNodes(_, _, _, _, _)
BuildNodes(num_slots, degs, k, rot_amt, acc) ==
  IF k > Len(degs) THEN [st |-> "ok", nodes |-> acc]
  ELSE IF degs[k] = 0 THEN [st |-> "abort", nodes |-> <<>>]
  ELSE LET amt == CDiv(rot_amt, degs[k])
           nd == ReplicatorNode(num_slots, degs[k], amt)
       IN IF nd.st # "ok" THEN [st |-> nd.st, nodes |-> <<>>]
          ELSE BuildNodes(num_slots, degs, k + 1, amt, Append(acc, nd.node))

\* The constructor, for a non-empty tree_degrees
DFSSlotReplicator(num_slots, tree_degrees, input_replication) ==
  IF input_replication <= 0 THEN [st |-> "throw", nodes |-> <<>>]
  ELSE IF CMod(num_slots, input_replication) # 0 THEN [st |-> "throw", nodes |-> <<>>]
  ELSE IF MaxElement(tree_degrees) < 2 THEN [st |-> "throw", nodes |-> <<>>]
  ELSE IF num_slots # input_replication * Product(tree_degrees)
       THEN [st |-> "throw", nodes |-> <<>>]
  ELSE BuildNodes(num_slots, tree_degrees, 1,
                  CDiv(num_slots, input_replication), <<>>)

\* The body of get_rotation_amounts, from the k-th degree on
RECURSIVE RotationAmounts(_, _, _)
RotationAmounts(degs, k, rot_amt) ==
  IF k > Len(degs) THEN <<>>
  ELSE LET amt == CDiv(rot_amt, degs[k])
       IN [i \in 1..(degs[k] - 1) |-> -(i * amt)] \o RotationAmounts(degs, k + 1, amt)

get_rotation_amounts_FromOne(tree_degrees) ==
  RotationAmounts(tree_degrees, 1, Product(tree_degrees) \div 2)

get_rotation_amounts(tree_degrees) ==
  RotationAmounts(tree_degrees, 1, Product(tree_degrees))

\* The loop of batch_replicate: pull until the stream ends
RECURSIVE Drain(_, _, _)
Drain(ns, ct_i, replicas) ==
  IF ct_i = Null \/ Len(replicas) > MaxSlots THEN replicas
  ELSE LET r == next_replica(ns, Len(ns))
       IN AndThen(r, Drain(r.nodes, r.ret, Append(replicas, ct_i)))

batch_replicate(ct, tree_degrees, input_replication) ==
  LET num_slots == Len(ct.slots)
      replicator == DFSSlotReplicator(num_slots, tree_degrees, input_replication)
  IN IF replicator.st # "ok" THEN [st |-> replicator.st, result |-> <<>>]
     ELSE LET num_results == CDiv(2 * num_slots, 2 * input_replication)
              first == init(replicator.nodes, Len(replicator.nodes), ct)
              replicas == Drain(first.nodes, first.ret, <<>>)
          IN IF Len(replicas) < num_results
             THEN [st |-> "short", result |-> <<>>]
             ELSE [st |-> "ok", result |-> replicas]

----------------------------------------------------------------------------
(* RunningSums *)

\* static_cast<int>(std::log2(n)) for n >= 1
RECURSIVE Log2(_)
Log2(n) == IF n <= 1 THEN 0 ELSE 1 + Log2(n \div 2)

\* 1 << k
RECURSIVE Shl1(_)
Shl1(k) == IF k <= 0 THEN 1 ELSE 2 * Shl1(k - 1)

\* What an integer division by zero does: the process traps (x86), or the
\* division yields 0 and the run goes on (AArch64)
DivZeroOutcomes == {"trap", "zero"}

divc_Floor(a, b) == IF b = 0 THEN 0 ELSE CDiv(a, b)

\* divc: division with ceiling; for b = 0 the quotient of a run that goes on
divc(a, b) == IF b = 0 THEN 0 ELSE CDiv(a + b - 1, b)

\* Lines 50-52 / 95-97: a budget <= 0 or > logn_intervals is replaced
fix_depth(depth_budget, logn_intervals) ==
  IF depth_budget <= 0 \/ depth_budget > logn_intervals
  THEN logn_intervals ELSE depth_budget

mask4shift_OffByOne(n_slots, amt, level) ==
  [slots |-> [i \in 1..n_slots |-> IF i - 1 > CMod(amt, n_slots) THEN 1 ELSE 0],
   level |-> level]

\* mask4shift with the mask encoded one level before the one asked for
mask4shift_Below(n_slots, amt, level) ==
  LET a0 == CMod(amt, n_slots)
      a == IF a0 < 0 THEN a0 + n_slots ELSE a0
  IN [slots |-> [i \in 1..n_slots |-> IF i - 1 >= a THEN 1 ELSE 0],
      level |-> level - 1]

\* mask4shift: {0 0 ... 0 1 1 ... 1}, ones from slot amt on, encoded at level
mask4shift(n_slots, amt, level) ==
  LET a0 == CMod(amt, n_slots)
      a == IF a0 < 0 THEN a0 + n_slots ELSE a0
  IN [slots |-> [i \in 1..n_slots |-> IF i - 1 >= a THEN 1 ELSE 0],
      level |-> level]

\* The two loops of the constructor (lines 104-124)
RECURSIVE PlanPhases(_, _, _, _, _, _)
PlanPhases(n_slots, stride, n_intervals, factor, level, acc) ==
  IF n_intervals > factor
  THEN LET n == CDiv(n_intervals, factor)
           phase_masks == [a \in {-(stride * n * i) : i \in 1..(factor - 1)} |->
                             mask4shift(n_slots, -a, level)]
       IN PlanPhases(n_slots, stride, n, factor, level + 1, Append(acc, phase_masks))
  ELSE IF n_intervals > 1
       THEN Append(acc, [a \in {-(stride * i) : i \in 1..(n_intervals - 1)} |->
                           mask4shift(n_slots, -a, level)])
       ELSE acc

\* RunningSums::RunningSums(cc, stride, depth_budget, level); ub is what the
\* division by zero in divc does, if the run gets there
RunningSums(n_slots, stride, depth_budget, level, ub) ==
  IF n_slots # Shl1(Log2(n_slots)) THEN [st |-> "throw", masks |-> <<>>]
  ELSE IF CMod(n_slots, stride) # 0 THEN [st |-> "throw", masks |-> <<>>]
  ELSE LET n_intervals == CDiv(n_slots, stride)
           logn_intervals == Log2(n_intervals)
           budget == fix_depth(depth_budget, logn_intervals)
       IN IF budget = 0 /\ ub = "trap" THEN [st |-> "trap", masks |-> <<>>]
          ELSE [st |-> "ok",
                masks |-> PlanPhases(n_slots, stride, n_intervals,
                                     Shl1(divc(logn_intervals, budget)), level, <<>>)]

\* The two loops of the static get_shift_amounts (lines 60-73)
RECURSIVE ShiftAmounts(_, _, _, _)
ShiftAmounts(stride, n_intervals, factor, acc) ==
  IF n_intervals > factor
  THEN LET n == CDiv(n_intervals, factor)
       IN ShiftAmounts(stride, n, factor,
                       acc \o [k \in 1..(factor - 1) |-> -(stride * n * (factor - k))])
  ELSE IF n_intervals > 1
       THEN acc \o [k \in 1..(n_intervals - 1) |-> -(stride * (n_intervals - k))]
       ELSE acc

\* The static RunningSums::get_shift_amounts(n_slots, stride, depth_budget)
get_shift_amounts(n_slots, stride, depth_budget, ub) ==
  IF n_slots # Shl1(Log2(n_slots)) THEN [st |-> "throw", amounts |-> <<>>]
  ELSE IF CMod(n_slots, stride) # 0 THEN [st |-> "throw", amounts |-> <<>>]
  ELSE LET n_intervals == CDiv(n_slots, stride)
           logn_intervals == Log2(n_intervals)
           budget == fix_depth(depth_budget, logn_intervals)
       IN IF budget = 0 /\ ub = "trap" THEN [st |-> "trap", amounts |-> <<>>]
          ELSE [st |-> "ok",
                amounts |-> ShiftAmounts(stride, n_intervals,
                                         Shl1(divc(logn_intervals, budget)), <<>>)]

\* The keys of a std::map<int, Plaintext>, in the order of iteration
RECURSIVE KeysInOrder(_)
KeysInOrder(keys) ==
  IF keys = {} THEN <<>>
  ELSE LET k == CHOOSE x \in keys : \A y \in keys : x <= y
       IN <<k>> \o KeysInOrder(keys \ {k})

RECURSIVE PhaseKeys(_, _)
PhaseKeys(masks, p) ==
  IF p > Len(masks) THEN <<>>
  ELSE KeysInOrder(DOMAIN masks[p]) \o PhaseKeys(masks, p + 1)

get_shift_amounts_FirstPhase(masks) ==
  IF masks = <<>> THEN <<>> ELSE KeysInOrder(DOMAIN masks[1])

\* The instance method get_shift_amounts() (running_sums.h): the keys of
\* every phase's map, phase after phase
get_shift_amounts_inst(masks) == PhaseKeys(masks, 1)

\* Lines 131-133: running sums across the ciphertexts, left to right
RECURSIVE PrefixCts(_, _)
PrefixCts(cts, i) ==
  IF i > Len(cts) THEN cts
  ELSE LET nxt == [cts EXCEPT ![i] = EvalAdd(cts[i - 1], cts[i])]
       IN AndThen(nxt, PrefixCts(nxt, i + 1))

Min(S) == CHOOSE x \in S : \A y \in S : x <= y

\* Lines 138-151: acc = sum over the phase's map, in key order, of
\* rotate(ctxts.back(), amt) * mask
RECURSIVE PhaseAcc(_, _, _)
PhaseAcc(back, phase_masks, todo) ==
  LET amt == Min(todo)
      tmp == EvalMultPlain(EvalRotate(back, amt), phase_masks[amt].slots)
  IN IF todo = {amt} THEN tmp
     ELSE EvalAdd(tmp, PhaseAcc(back, phase_masks, todo \ {amt}))

\* Lines 137-156: one phase after the other, acc added to every ciphertext
RECURSIVE EvalPhases(_, _, _)
EvalPhases(cts, masks, p) ==
  IF p > Len(masks) THEN cts
  ELSE LET acc == PhaseAcc(cts[Len(cts)], masks[p], DOMAIN masks[p])
           nxt == [k \in 1..Len(cts) |-> EvalAdd(cts[k], acc)]
       IN AndThen(nxt, EvalPhases(nxt, masks, p + 1))

\* RunningSums::eval_in_place on a non-empty vector
eval_in_place(masks, cts) == EvalPhases(PrefixCts(cts, 2), masks, 1)

\* The rotation amounts eval_in_place passes to EvalRotate
eval_rotations(masks) == UNION {DOMAIN masks[p] : p \in 1..Len(masks)}

----------------------------------------------------------------------------
(* params.h *)

RUNNING_SUM_LEVELS == 3

MAX_PAYLOAD_VAL == 256

PAYLOAD_PRECISION == 16

PAYLOAD_DIM == 8

getNSlots(prms) == CDiv(prms.ringDim, 2)

getNCtxts_Floor(prms) == CDiv(prms.dbSize, getNSlots(prms))

getNCtxts(prms) == CDiv(prms.dbSize + getNSlots(prms) - 1, getNSlots(prms))

getNCols(prms) == CDiv(prms.ringDim, 128)

getMaxNMatch == CDiv(64, PAYLOAD_DIM)

\* enum InstanceSize
TOY == 0

SMALL == 1

MEDIUM == 2

LARGE == 3

\* InstanceParams::InstanceParams(size).  unsigned(size) > unsigned(LARGE)
\* holds for a size above LARGE and, the conversion wrapping, for one below 0
InstanceParams(size) ==
  IF size < 0 \/ size > LARGE THEN [st |-> "throw"]
  ELSE [st |-> "ok",
        prms |-> [recordDim |-> <<128, 128, 256, 512>>[size + 1],
                  dbSize |-> <<1000, 50000, 1000000, 20000000>>[size + 1],
                  ringDim |-> IF size = TOY THEN 1024 ELSE 65536,
                  degrees |-> CASE size = LARGE -> <<16, 8, 4>>
                                [] size = MEDIUM -> <<8, 8, 4>>
                                [] OTHER -> <<8, 4, 4>>]]

----------------------------------------------------------------------------
(* Slot values of the pipeline.  The doubles of the code are fixed-point    *)
(* numbers here: ONE stands for 1.0, so 0.504 and 1/PAYLOAD_PRECISION are   *)
(* both exact.                                                              *)

ONE == 125 * PAYLOAD_PRECISION

\* ct->Clone(): a deep copy
Clone(ct) == Ciphertext(ct)

\* ciphertext times ciphertext, slot-wise (with or without relinearization)
EvalMult(a, b) ==
  Ciphertext([slots |-> [s \in 1..Len(a.slots) |->
                           (a.slots[s] * b.slots[s]) \div ONE],
              level |-> (IF a.level >= b.level THEN a.level ELSE b.level) + 1])

\* EvalSubInPlace(ct, c) for a constant c
EvalSub(ct, c) ==
  Ciphertext([slots |-> [s \in 1..Len(ct.slots) |-> ct.slots[s] - c],
              level |-> ct.level])

RECURSIVE SumSlots(_, _, _)
SumSlots(slots, lo, hi) ==
  IF lo > hi THEN 0
  ELSE IF lo = hi THEN slots[lo]
  ELSE LET mid == (lo + hi) \div 2
       IN SumSlots(slots, lo, mid) + SumSlots(slots, mid + 1, hi)

\* EvalSum(ct, n): the sum of the n slots, in every slot
EvalSum(ct, n) ==
  Ciphertext(LET total == SumSlots(ct.slots, 1, n)
             IN [slots |-> [s \in 1..Len(ct.slots) |-> total], level |-> ct.level])

\* Multiplicative depth of the Chebyshev evaluation of a given degree
ChebyshevDepth(degree) ==
  IF degree <= 59 THEN 7 ELSE IF degree <= 119 THEN 8 ELSE 9

\* EvalChebyshevFunction(func, ct, -1, 1, degree), taken as exact: the slots
\* hold the values fx that func takes on the slots of ct
EvalChebyshevFunction(fx, ct, degree) ==
  Ciphertext([slots |-> fx, level |-> ct.level + ChebyshevDepth(degree)])

----------------------------------------------------------------------------
(* The files of a run: keys, query.bin, batchJJJJ/row_IIII.bin and          *)
(* batchJJJJ/payload_IIII.bin.  A world w holds the instance parameters     *)
(* w.prms, the set w.hot of the records similar to the query, the flag      *)
(* w.count_only and the set w.missing of files that cannot be read.         *)

KeyFile(kind) == [kind |-> kind, batch |-> 0, idx |-> 0]

RowFile(j, i) == [kind |-> "row", batch |-> j, idx |-> i]

PayloadFile(k, j) == [kind |-> "payload", batch |-> k, idx |-> j]

\* The query vector: 0.9 in coordinate 0 and 0.2/i in coordinate i > 0
QueryVal(i) == IF i = 0 THEN (9 * ONE) \div 10 ELSE (ONE \div 5) \div i

\* Record n of db.bin: the query itself for a hot record; of the others every
\* third is the query scaled by 0.9 and the rest holds 0.1 and 0.2
DbVal(w, n, i) ==
  IF n \in w.hot THEN QueryVal(i)
  ELSE IF n % 3 = 1 THEN (9 * QueryVal(i)) \div 10
  ELSE (ONE \div 10) * (1 + ((n + i) % 2))

\* Record n of payloads.bin: PAYLOAD_DIM-1 values in [0, 256*16)
PayloadVal(n, j) ==
  ((n + 1) * 613 + j * 97) % (MAX_PAYLOAD_VAL * PAYLOAD_PRECISION)

\* add_markers: the marker 2*MAX_PAYLOAD_VAL*PAYLOAD_PRECISION goes first
add_markers(n, j) ==
  IF j = 0 THEN 2 * MAX_PAYLOAD_VAL * PAYLOAD_PRECISION ELSE PayloadVal(n, j)

\* client_encode_encrypt_query: slots[i] = qry[i % d], a fresh ciphertext
encrypt_query(prms) ==
  Ciphertext([slots |-> [s \in 1..getNSlots(prms) |->
                           QueryVal((s - 1) % prms.recordDim)],
              level |-> 0])

\* transpose_matrix: transposed[i][j][k] = mat[i*n_slots + k][j], 0 beyond
\* the last row of mat
transpose_matrix(mat, n_rows, n_slots, i, j, k) ==
  LET idx == (i * n_slots) + k
  IN IF idx < n_rows THEN mat[idx][j] ELSE 0

\* batch<j>/row_<i>.bin as client_encode_encrypt_db writes it
row_ctxt(w, j, i) ==
  Ciphertext(LET mat == [n \in 0..(w.prms.dbSize - 1) |->
                           [c \in 0..(w.prms.recordDim - 1) |-> DbVal(w, n, c)]]
                 n_slots == getNSlots(w.prms)
             IN [slots |-> [s \in 1..n_slots |->
                              transpose_matrix(mat, w.prms.dbSize, n_slots,
                                               j, i, s - 1)],
                 level |-> Len(w.prms.degrees) - 1])

\* batch<k>/payload_<j>.bin: the payloads with markers, transposed and
\* divided by PAYLOAD_PRECISION, encrypted at level 20
payload_ctxt(w, k, j) ==
  Ciphertext(LET mat == [n \in 0..(w.prms.dbSize - 1) |->
                           [c \in 0..(PAYLOAD_DIM - 1) |->
                              add_markers(n, c) * (ONE \div PAYLOAD_PRECISION)]]
                 n_slots == getNSlots(w.prms)
             IN [slots |-> [s \in 1..n_slots |->
                              transpose_matrix(mat, w.prms.dbSize, n_slots,
                                               k, j, s - 1)],
                 level |-> 20])

\* The files the key generation and the two encoders write
Written(w, f) ==
  \/ f.kind \in {"cc", "pk", "mk", "rk", "query"}
  \/ /\ f.kind = "row"
     /\ f.batch \in 0..(getNCtxts(w.prms) - 1)
     /\ f.idx \in 0..(w.prms.recordDim - 1)
  \/ /\ f.kind = "payload"
     /\ f.batch \in 0..(getNCtxts(w.prms) - 1)
     /\ f.idx \in 0..(PAYLOAD_DIM - 1)

\* Whether Serial::DeserializeFromFile succeeds on f
Readable(w, f) == Written(w, f) /\ f \notin w.missing

----------------------------------------------------------------------------
(* server_encrypted_compute.cpp *)

\* The loop of mat_vec_mult over the replicas: r is what init / next_replica
\* returned (the tree, ct_i and the rotations requested so far), i the index
\* of the replica, acc the accumulators, st.reads and st.events the files
\* read and the products added so far.  A row file that cannot be read
\* ends the loop with an exception.
accumulate_Overwrite(i, acc_j, ct) == ct

\* Lines 371-375: the first product initializes the accumulator
accumulate(i, acc_j, ct) == IF i = 0 THEN ct ELSE EvalAdd(acc_j, ct)

RECURSIVE mat_vec_loop(_, _, _, _, _)
mat_vec_loop(w, r, i, acc, st) ==
  LET n_batches == getNCtxts(w.prms)
      absent == {j \in 0..(n_batches - 1) : ~Readable(w, RowFile(j, i))}
      upto == IF absent = {} THEN n_batches - 1 ELSE Min(absent)
      st2 == [reads |-> st.reads \cup {RowFile(j, i) : j \in 0..upto},
              events |-> st.events \o
                         [j \in 1..(IF absent = {} THEN n_batches ELSE upto) |->
                            <<"mult", j - 1, i>>]]
  IN IF r.ret = Null
     THEN [st |-> "ok", acc |-> acc, reads |-> st.reads,
           events |-> st.events, rots |-> r.rots]
     ELSE IF absent # {}
     THEN [st |-> "throw", acc |-> <<>>, reads |-> st2.reads,
           events |-> st2.events, rots |-> r.rots]
     ELSE LET acc2 == [j \in 1..n_batches |->
                         accumulate(i, acc[j],
                                    EvalMult(row_ctxt(w, j - 1, i), r.ret))]
              nxt == next_replica(r.nodes, Len(r.nodes))
              r2 == [nxt EXCEPT !.rots = r.rots \cup nxt.rots]
          IN AndThen(<<acc2, r2>>, mat_vec_loop(w, r2, i + 1, acc2, st2))

\* mat_vec_mult(encdir, qry, prms): the scores, the files read, the products
\* (EvalMultNoRelin) and relinearizations in order, the rotations requested
mat_vec_mult(w, qry) ==
  LET n_reps == CDiv(getNSlots(w.prms), w.prms.recordDim)
      replicator == DFSSlotReplicator(getNSlots(w.prms), w.prms.degrees, n_reps)
  IN IF replicator.st # "ok"
     THEN [st |-> "throw", acc |-> <<>>, reads |-> {}, events |-> <<>>,
           rots |-> {}]
     ELSE LET first == init(replicator.nodes, Len(replicator.nodes), qry)
              out == mat_vec_loop(w, first, 0,
                                  [j \in 1..getNCtxts(w.prms) |-> Null],
                                  [reads |-> {}, events |-> <<>>])
          IN IF out.st # "ok" THEN out
             ELSE [out EXCEPT !.events = out.events \o
                     [j \in 1..getNCtxts(w.prms) |-> <<"relin", j - 1>>]]

\* sigmoid(x, outscale) with inscale taken to its limit: the exact step
sigmoid(x, outscale) ==
  IF x > 0 THEN outscale ELSE IF x = 0 THEN outscale \div 2 ELSE 0

\* compare_to_threshold with the scale of the counting run in both branches
compare_to_threshold_UnitScale(cts, threshold, count_only) ==
  LET func(x) == sigmoid(x - threshold, ONE)
      degree == IF count_only THEN 247 ELSE 59
  IN [k \in 1..Len(cts) |->
        EvalChebyshevFunction([s \in 1..Len(cts[k].slots) |-> func(cts[k].slots[s])],
                              cts[k], degree)]

\* compare_to_threshold(ctxts, threshold, count_only)
compare_to_threshold(cts, threshold, count_only) ==
  LET outscale == IF count_only THEN ONE ELSE (504 * ONE) \div 1000
      func(x) == sigmoid(x - threshold, outscale)
      degree == IF count_only THEN 247 ELSE 59
  IN [k \in 1..Len(cts) |->
        EvalChebyshevFunction([s \in 1..Len(cts[k].slots) |-> func(cts[k].slots[s])],
                              cts[k], degree)]

\* impulse(x) with sigma taken to its limit: 1 within half the distance of
\* two ranks (1/8), 0 elsewhere
impulse(x) == IF Abs(x) < ONE \div 8 THEN ONE ELSE 0

\* compare_to_number(ctxts, number)
compare_to_number(cts, number) ==
  LET func(x) == impulse(x - number)
  IN [k \in 1..Len(cts) |->
        EvalChebyshevFunction([s \in 1..Len(cts[k].slots) |-> func(cts[k].slots[s])],
                              cts[k], 119)]

count_matches_FirstOnly(cts, n_slots) == EvalSum(cts[1], n_slots)

\* The count_only branch of main: all ciphertexts added into result[0], then
\* EvalSum over the slots
count_matches(cts, n_slots) == EvalSum(SumCts(cts, Len(cts)), n_slots)

\* The loop of total_sums, i = s-1 down to 0: rotate by 2^(i+r) and add
RECURSIVE total_sums_loop(_, _, _)
total_sums_loop(results, i, r) ==
  IF i < 0 THEN results
  ELSE LET nxt == EvalAdd(results, EvalRotate(results, Shl1(i + r)))
       IN AndThen(nxt, total_sums_loop(nxt, i - 1, r))

\* total_sums with the sums taken down the whole column
total_sums_Columns(ct, prms) ==
  LET period == getNCols(prms)
      s == Log2(CDiv(getNSlots(prms), period))
      r == Log2(period)
  IN total_sums_loop(Clone(ct), s - 1, r)

\* total_sums(ct, prms)
total_sums(ct, prms) ==
  LET period == getNCols(prms) * PAYLOAD_DIM
      s == Log2(CDiv(getNSlots(prms), period))
      r == Log2(period)
  IN total_sums_loop(Clone(ct), s - 1, r)

\* The rotation amounts total_sums passes to EvalRotate
total_sums_rotations(prms) ==
  LET period == getNCols(prms) * PAYLOAD_DIM
      s == Log2(CDiv(getNSlots(prms), period))
      r == Log2(period)
  IN {Shl1(i + r) : i \in 0..(s - 1)}

payload_shift_Rows(j, n_cols) == -j

\* The rotation that moves the j-th payload value j rows down its column
payload_shift(j, n_cols) == -(j * n_cols)

\* The two inner loops of the enumeration, flattened: step t is payload
\* coordinate j = t / B of batch k = t % B
RECURSIVE payload_loop(_, _, _, _)
payload_loop(w, indicator, t, to_replicate) ==
  LET n_batches == Len(indicator)
      j == t \div n_batches
      k == t % n_batches
      payload_part == EvalMult(payload_ctxt(w, k, j), indicator[k + 1])
      shifted == IF j # 0
                 THEN EvalRotate(payload_part, payload_shift(j, getNCols(w.prms)))
                 ELSE payload_part
      nxt == IF t = 0 THEN Clone(payload_part)
             ELSE EvalAdd(to_replicate, shifted)
  IN IF t = PAYLOAD_DIM * n_batches THEN to_replicate
     ELSE AndThen(nxt, payload_loop(w, indicator, t + 1, nxt))

\* The mask with its last row included: rows [(i-1)*PAYLOAD_DIM, i*PAYLOAD_DIM]
block_mask_Inclusive(prms, i) ==
  [ell \in 1..getNSlots(prms) |->
     LET row == CDiv(ell - 1, getNCols(prms))
     IN IF row >= (i - 1) * PAYLOAD_DIM /\ row <= i * PAYLOAD_DIM THEN 1 ELSE 0]

\* Step 4: the mask with 1 in rows [(i-1)*PAYLOAD_DIM, i*PAYLOAD_DIM) of
\* every column
block_mask(prms, i) ==
  [ell \in 1..getNSlots(prms) |->
     LET row == CDiv(ell - 1, getNCols(prms))
     IN IF row >= (i - 1) * PAYLOAD_DIM /\ row < i * PAYLOAD_DIM THEN 1 ELSE 0]

\* One iteration of the enumeration loop of main: the masked payloads of
\* the i-th match of every column
extract_match(w, ranks, i) ==
  LET x_i == (i * ONE) \div 4 - ONE
      indicator == compare_to_number(ranks, x_i)
      to_replicate == payload_loop(w, indicator, 0, Null)
      replicated == total_sums(to_replicate, w.prms)
  IN EvalMultPlain(replicated, block_mask(w.prms, i))

\* The same loops if a failed read were not noticed
payload_reads_Unchecked(w) ==
  [ok |-> TRUE,
   reads |-> {PayloadFile(k, j) : k \in 0..(getNCtxts(w.prms) - 1),
                                  j \in 0..(PAYLOAD_DIM - 1)}]

\* The payload files one iteration reads, in the order of the loops, up to
\* the first that cannot be read
payload_reads(w) ==
  LET n_batches == getNCtxts(w.prms)
      order == [t \in 0..(PAYLOAD_DIM * n_batches - 1) |->
                  PayloadFile(t % n_batches, t \div n_batches)]
      absent == {t \in DOMAIN order : ~Readable(w, order[t])}
      upto == IF absent = {} THEN PAYLOAD_DIM * n_batches - 1 ELSE Min(absent)
  IN [ok |-> absent = {}, reads |-> {order[t] : t \in 0..upto}]

----------------------------------------------------------------------------
(* client_key_generation.cpp, and the rotations of a full server run *)

\* The automorphism a rotation by k slots uses: rotations that agree modulo
\* the slot count move the slots alike and share a key
AutomorphismOf(k, n_slots) == k % n_slots

\* EvalAtIndexKeyGen(sk, indices): a key for every listed rotation
EvalAtIndexKeyGen(indices, n_slots) ==
  {AutomorphismOf(k, n_slots) : k \in indices}

\* EvalSumRowsKeyGen(sk, pk, rowSize): the keys of the rotate-and-add that
\* sums in strides of rowSize, which are the rotations by rowSize * 2^t
EvalSumRowsKeyGen(rowSize, n_slots) ==
  {AutomorphismOf(rowSize * Shl1(t), n_slots) :
     t \in 0..(Log2(CDiv(n_slots, rowSize)) - 1)}

\* vector_union (utils.h): the elements of all the vectors, each once
vector_union(vecs) == UNION {SeqToSet(vecs[i]) : i \in 1..Len(vecs)}

key_shift_Rows(i, n_cols) == -i

\* Line 95: shifts[i - 1] = -i * prms.getNCols()
key_shift(i, n_cols) == -(i * n_cols)

\* key_gen(prms): the automorphism keys it registers
key_gen(prms, ub) ==
  LET rots4reps == get_rotation_amounts(prms.degrees)
      key_shifts == [i \in 1..(PAYLOAD_DIM - 1) |-> key_shift(i, getNCols(prms))]
      shifts2 == get_shift_amounts(getNSlots(prms), getNCols(prms),
                                   RUNNING_SUM_LEVELS, ub)
  IN IF shifts2.st # "ok" THEN [st |-> shifts2.st, keys |-> {}]
     ELSE [st |-> "ok",
           keys |-> EvalAtIndexKeyGen(
                      vector_union(<<rots4reps, key_shifts, shifts2.amounts>>),
                      getNSlots(prms))
                    \cup EvalSumRowsKeyGen(getNCols(prms) * PAYLOAD_DIM,
                                           getNSlots(prms))]

\* The rotations main of the server passes to the backend in a full run,
\* each with the stage that asks for it: the replicator of mat_vec_mult
\* (lines 352-353), the running sums (lines 214-215), the payload shifts
\* of get_encrypted_payload and total_sums
full_run_rotations(prms, level, ub) ==
  LET n_slots == getNSlots(prms)
      replicator == DFSSlotReplicator(n_slots, prms.degrees,
                                      CDiv(n_slots, prms.recordDim))
      rs == RunningSums(n_slots, getNCols(prms), RUNNING_SUM_LEVELS, level, ub)
  IN {<<"replicate", k>> :
        k \in UNION {install_source(replicator.nodes[i], Null).rots :
                       i \in 1..Len(prms.degrees)}}
     \cup {<<"running sums", k>> : k \in eval_rotations(rs.masks)}
     \cup {<<"payload", payload_shift(j, getNCols(prms))>> :
             j \in 1..(PAYLOAD_DIM - 1)}
     \cup {<<"total sums", k>> : k \in total_sums_rotations(prms)}

----------------------------------------------------------------------------
(* Initial state: nothing constructed yet *)

RepIdle ==
  /\ rphase = "new"
  /\ rargs = [num_slots |-> 0, tree_degrees |-> <<>>, input_replication |-> 0]
  /\ nodes = <<>>
  /\ src = Null
  /\ ret = Null
  /\ produced = 0
  /\ rots = {}
  /\ lastop = "none"
  /\ batch = [st |-> "none", result |-> <<>>]
  /\ before = [src |-> Null, produced |-> 0]

RSIdle ==
  /\ sphase = "new"
  /\ sargs = [n_slots |-> 0, stride |-> 0, depth_budget |-> 0, level |-> 0]
  /\ rs_masks = <<>>
  /\ shifts = [st |-> "none", amounts |-> <<>>]
  /\ inputs = <<>>
  /\ ctxts = <<>>
  /\ srots = {}

NoWorld ==
  [prms |-> [recordDim |-> 0, dbSize |-> 0, ringDim |-> 0, degrees |-> <<>>],
   hot |-> {}, count_only |-> FALSE, missing |-> {}]

\* No server process
SrvOff ==
  /\ world = NoWorld
  /\ pc = "off"
  /\ steps = <<>>
  /\ eqry = Null
  /\ result = <<>>
  /\ enum_i = 0
  /\ accumulator = Null
  /\ results_bin = <<>>
  /\ reads = {}
  /\ relin = <<>>
  /\ xrots = {}

\* No client program has run
CliIdle ==
  /\ call = [op |-> "none"]
  /\ outcome = [st |-> "none"]
  /\ rk_bin = {}
  /\ io_results_bin = <<>>

Init == RepIdle /\ RSIdle /\ SrvOff /\ CliIdle

----------------------------------------------------------------------------
(* The replication tree as a state machine *)

\* Input ciphertexts: fresh (level 0), either repeating a pattern of length
\* P or not periodic at all (a ramp)
PeriodicCt(id, S, P) ==
  [slots |-> [s \in 1..S |-> 10 * id + ((s - 1) % P)], level |-> 0]

RampCt(S) == [slots |-> [s \in 1..S |-> 50 + s], level |-> 0]

InputsFor(S, rho) ==
  {RampCt(S)} \cup
  (IF rho > 0 /\ S % rho = 0
   THEN {PeriodicCt(id, S, S \div rho) : id \in 1..NumInputs} ELSE {})

DegVals(S) == ((0 - MaxNegDeg)..MaxDeg) \cup {S}

DegSeqs(S) == UNION {[1..n -> DegVals(S)] : n \in 1..MaxDepth}

RhoVals(S) == (0 - 1)..(S + 1)

\* DFSSlotReplicator replicator(cc, tree_degrees, input_replication)
Construct ==
  /\ rphase = "new"
  /\ \E S \in 1..MaxSlots :
       \E degs \in DegSeqs(S), rho \in RhoVals(S) :
         LET r == DFSSlotReplicator(S, degs, rho)
         IN /\ rargs' = [num_slots |-> S, tree_degrees |-> degs,
                         input_replication |-> rho]
            /\ rphase' = IF r.st = "ok" THEN "built" ELSE "failed"
            /\ nodes' = r.nodes
  /\ lastop' = "ctor"
  /\ UNCHANGED <<src, ret, produced, rots, batch, before>>
  /\ UNCHANGED <<rsVars, srvVars, cliVars>>

\* replicator.init(ct)
InitCt ==
  /\ rphase = "built"
  /\ \E ct \in InputsFor(rargs.num_slots, rargs.input_replication) \cup {Null} :
       LET r == init(nodes, Len(nodes), ct)
       IN /\ nodes' = r.nodes
          /\ ret' = r.ret
          /\ rots' = rots \cup r.rots
          /\ src' = IF ct = Null THEN src ELSE ct
          /\ lastop' = IF ct = Null THEN "init_null" ELSE "init"
          /\ produced' = IF ct = Null THEN produced
                         ELSE IF r.ret = Null THEN 0 ELSE 1
          /\ before' = IF ct = Null THEN before
                       ELSE [src |-> src, produced |-> produced]
  /\ UNCHANGED <<rphase, rargs, batch>>
  /\ UNCHANGED <<rsVars, srvVars, cliVars>>

\* replicator.next_replica()
NextReplica ==
  /\ rphase = "built"
  /\ produced <= rargs.num_slots
  /\ LET r == next_replica(nodes, Len(nodes))
     IN /\ nodes' = r.nodes
        /\ ret' = r.ret
        /\ rots' = rots \cup r.rots
        /\ produced' = IF r.ret = Null THEN produced ELSE produced + 1
  /\ lastop' = "next"
  /\ UNCHANGED <<rphase, rargs, src, batch, before>>
  /\ UNCHANGED <<rsVars, srvVars, cliVars>>

\* DFSSlotReplicator::batch_replicate(ct, tree_degrees, input_replication)
BatchReplicate ==
  /\ rphase = "new"
  /\ \E S \in 1..MaxSlots :
       \E degs \in DegSeqs(S), rho \in RhoVals(S) :
         \E ct \in InputsFor(S, rho) :
           /\ rargs' = [num_slots |-> S, tree_degrees |-> degs,
                        input_replication |-> rho]
           /\ batch' = batch_replicate(ct, degs, rho)
           /\ src' = ct
  /\ rphase' = "batched"
  /\ lastop' = "batch"
  /\ UNCHANGED <<nodes, ret, produced, rots, before>>
  /\ UNCHANGED <<rsVars, srvVars, cliVars>>

NextRep == Construct \/ InitCt \/ NextReplica \/ BatchReplicate

SpecRep == Init /\ [][NextRep]_vars

----------------------------------------------------------------------------
(* Claims about the replication tree *)

PatternLen == rargs.num_slots \div rargs.input_replication

IsPeriodic(ct, P) ==
  \A s \in 1..Len(ct.slots) : ct.slots[s] = ct.slots[((s - 1) % P) + 1]

AllSlotsEqual(ct, v) == \A s \in 1..Len(ct.slots) : ct.slots[s] = v

\* C1: the k-th ciphertext of the stream of a periodic input (k = 0 from
\* init, k = 1..P-1 from next_replica) has every slot equal to input slot k,
\* whatever the tree shape; batch_replicate returns them in that order.
C1_ReplicaK ==
  /\ (rphase = "built" /\ ret # Null /\ IsPeriodic(src, PatternLen))
        => AllSlotsEqual(ret, src.slots[produced])
  /\ (rphase = "batched" /\ batch.st = "ok" /\ IsPeriodic(src, PatternLen))
        => \A k \in 1..Len(batch.result) :
              AllSlotsEqual(batch.result[k], src.slots[k])

C1_Witness ==
  /\ rphase = "built"
  /\ Len(rargs.tree_degrees) = 3
  /\ rargs.input_replication = 1
  /\ lastop = "next"
  /\ ret # Null
  /\ produced = PatternLen
  /\ AllSlotsEqual(ret, src.slots[PatternLen])

ValidArgs(a) ==
  /\ \A k \in 1..Len(a.tree_degrees) : a.tree_degrees[k] >= 2
  /\ a.input_replication >= 1
  /\ a.num_slots % a.input_replication = 0
  /\ a.input_replication * Product(a.tree_degrees) = a.num_slots

\* C2: after init(ct) with a non-null ct the stream yields exactly P = S/rho
\* non-null replicas, init's value being the first, and every later pull
\* returns end; batch_replicate returns exactly P ciphertexts and never
\* raises "Not enough replicas".
C2_ExactlyP ==
  /\ (rphase = "built" /\ lastop = "init") => (ret # Null /\ produced = 1)
  /\ (rphase = "built" /\ src # Null) => produced <= PatternLen
  /\ (rphase = "built" /\ src # Null /\ lastop = "next" /\ ret = Null)
        => produced = PatternLen
  /\ rphase = "batched" => batch.st # "short"
  /\ (rphase = "batched" /\ ValidArgs(rargs))
        => (batch.st = "ok" /\ Len(batch.result) = PatternLen)

C2_Witness ==
  /\ rphase = "built"
  /\ src # Null
  /\ lastop = "next"
  /\ ret = Null
  /\ produced = PatternLen
  /\ PatternLen = 4
  /\ rargs.input_replication = 2

\* C7: construction fails, leaving no replicator, whenever some degree is
\* < 2, input_replication is <= 0 or does not divide S, or input_replication
\* times the product of the degrees differs from S; it succeeds otherwise.
C7_CtorRejects ==
  lastop = "ctor" =>
    /\ rphase = "failed" <=> ~ValidArgs(rargs)
    /\ rphase = "failed" => nodes = <<>>
    /\ rphase = "built" => Len(nodes) = Len(rargs.tree_degrees)

\* a degree 1 hidden behind a larger one, with the right product
C7_Witness ==
  /\ lastop = "ctor"
  /\ rphase = "failed"
  /\ rargs.input_replication >= 1
  /\ rargs.input_replication * Product(rargs.tree_degrees) = rargs.num_slots
  /\ MaxElement(rargs.tree_degrees) >= 2
  /\ \E k \in 1..Len(rargs.tree_degrees) : rargs.tree_degrees[k] = 1

\* The amounts -ri, -2ri, ..., -(fi-1)ri of the node at level i, where
\* ri = P/(f1*...*fi)
LevelAmounts(degs, P) ==
  UNION {{-(j * (P \div Product(SubSeq(degs, 1, i)))) : j \in 1..(degs[i] - 1)}
           : i \in 1..Len(degs)}

\* C10: the rotation amounts the tree passes to the backend during init and
\* a full enumeration are exactly those of get_rotation_amounts(degrees),
\* which are -j*ri for j = 1..fi-1 at every level i.
C10_Rotations ==
  rphase = "built" =>
    /\ rots \subseteq SeqToSet(get_rotation_amounts(rargs.tree_degrees))
    /\ src # Null => rots = SeqToSet(get_rotation_amounts(rargs.tree_degrees))
    /\ SeqToSet(get_rotation_amounts(rargs.tree_degrees))
         = LevelAmounts(rargs.tree_degrees, PatternLen)

C10_Witness ==
  /\ rphase = "built"
  /\ produced = PatternLen
  /\ lastop = "next"
  /\ ret = Null
  /\ \E i, j \in 1..Len(nodes) : nodes[i].num_replicas = 2 /\ nodes[j].num_replicas > 2
  /\ rots = LevelAmounts(rargs.tree_degrees, PatternLen)

\* C14: in every node, of fan-out f and rotation r with f*r dividing S, the
\* f masks are 0/1 vectors whose slot-wise sum is all ones (exactly one mask
\* is 1 at every slot) and whose pairwise products are all zero; mask k (from 0) is 1 exactly on the slots of the
\* runs of length r that start at b*f*r + k*r.
C14_MasksPartition ==
  rphase = "built" =>
    \A i \in 1..Len(nodes) :
      LET f == nodes[i].num_replicas
          r == nodes[i].rot_amt
          S == rargs.num_slots
          mask == nodes[i].masks
      IN /\ S % (f * r) = 0
         /\ Len(mask) = f
         /\ \A k \in 1..f : Len(mask[k]) = S
         /\ \A k \in 1..f, s \in 1..S : mask[k][s] \in {0, 1}
         /\ \A s \in 1..S : Cardinality({k \in 1..f : mask[k][s] = 1}) = 1
         /\ \A k \in 1..f, l \in 1..f, s \in 1..S :
              k # l => mask[k][s] * mask[l][s] = 0
         /\ \A k \in 1..f, s \in 1..S :
              mask[k][s] = 1 <=> ((s - 1) % (f * r)) \div r = k - 1

C14_Witness ==
  /\ rphase = "built"
  /\ rargs.num_slots = 8
  /\ Len(nodes) = 2
  /\ nodes[1].num_replicas = 2
  /\ nodes[1].rot_amt = 2
  /\ nodes[1].masks = <<<<1, 1, 0, 0, 1, 1, 0, 0>>, <<0, 0, 1, 1, 0, 0, 1, 1>>>>

\* The stream has no replica to give: no ciphertext was installed yet, or
\* all P = S/rho replicas of the last one were returned
NoReplicaLeft ==
  /\ rphase = "built"
  /\ \/ src = Null
     \/ produced = CDiv(rargs.num_slots, rargs.input_replication)

\* C13: a next_replica() called when the stream has no replica to give -
\* before any init, or after the P-th replica - returns null, raises nothing
\* and leaves every node (current index, shift buffer, masks) as it was,
\* at every such call.
C13_PullAfterEnd ==
  [][(NoReplicaLeft /\ lastop' = "next") =>
       /\ ret' = Null
       /\ nodes' = nodes
       /\ rphase' = "built"
       /\ produced' = produced
       /\ rots' = rots]_vars

C13_Witness ==
  /\ rphase = "built"
  /\ lastop = "next"
  /\ ret = Null
  /\ src # Null
  /\ Len(nodes) = 2
  /\ produced = 8
  /\ \A i \in 1..Len(nodes) : nodes[i].current = nodes[i].num_replicas

----------------------------------------------------------------------------
(* Running sums as a state machine *)

RSSlots == 1..Shl1(MaxLogSlots)

\* Input vectors of B ciphertexts at the given level: a single 1 at slot s
\* of ciphertext k, all slots distinct, or all slots 1
UnitCts(B, S, k, s, level) ==
  [j \in 1..B |-> [slots |-> [x \in 1..S |-> IF j = k /\ x = s THEN 1 ELSE 0],
                   level |-> level]]

DistinctCts(B, S, level) ==
  [j \in 1..B |-> [slots |-> [x \in 1..S |-> (j - 1) * S + x], level |-> level]]

OnesCts(B, S, level) ==
  [j \in 1..B |-> [slots |-> [x \in 1..S |-> 1], level |-> level]]

InputVectors(B, S, level) ==
  {UnitCts(B, S, k, s, level) : k \in 1..B, s \in 1..S}
    \cup {DistinctCts(B, S, level), OnesCts(B, S, level)}

\* RunningSums rs(cc, stride, depth_budget, level)
RSConstruct ==
  /\ sphase = "new"
  /\ \E S \in RSSlots :
       \E stride \in 1..(S + 1), budget \in (0 - 1)..(MaxLogSlots + 1),
          level \in 0..MaxTopLevel, ub \in DivZeroOutcomes :
         LET r == RunningSums(S, stride, budget, level, ub)
         IN /\ sargs' = [n_slots |-> S, stride |-> stride,
                         depth_budget |-> budget, level |-> level]
            /\ sphase' = CASE r.st = "ok" -> "built"
                           [] r.st = "throw" -> "failed"
                           [] OTHER -> "trapped"
            /\ rs_masks' = r.masks
  /\ UNCHANGED <<shifts, inputs, ctxts, srots>>
  /\ UNCHANGED <<repVars, srvVars, cliVars>>

\* RunningSums::get_shift_amounts(n_slots, stride, depth_budget)
GetShiftAmounts ==
  /\ sphase = "new"
  /\ \E S \in RSSlots :
       \E stride \in 1..(S + 1), budget \in (0 - 1)..(MaxLogSlots + 1),
          ub \in DivZeroOutcomes :
         /\ sargs' = [n_slots |-> S, stride |-> stride,
                      depth_budget |-> budget, level |-> 0]
         /\ shifts' = get_shift_amounts(S, stride, budget, ub)
  /\ sphase' = "static"
  /\ UNCHANGED <<rs_masks, inputs, ctxts, srots>>
  /\ UNCHANGED <<repVars, srvVars, cliVars>>

\* rs.eval_in_place(ctxts), the ciphertexts being at the constructor's level
EvalInPlace ==
  /\ sphase = "built"
  /\ \E B \in 1..MaxCtxts :
       \E cts \in InputVectors(B, sargs.n_slots, sargs.level) :
         /\ inputs' = cts
         /\ ctxts' = eval_in_place(rs_masks, cts)
  /\ srots' = srots \cup eval_rotations(rs_masks)
  /\ sphase' = "evaluated"
  /\ UNCHANGED <<sargs, rs_masks, shifts>>
  /\ UNCHANGED <<repVars, srvVars, cliVars>>

\* rs.get_shift_amounts() on a constructed object
InstShiftAmounts ==
  /\ sphase \in {"built", "evaluated"}
  /\ shifts.st = "none"
  /\ shifts' = [st |-> "ok", amounts |-> get_shift_amounts_inst(rs_masks)]
  /\ UNCHANGED <<sphase, sargs, rs_masks, inputs, ctxts, srots>>
  /\ UNCHANGED <<repVars, srvVars, cliVars>>

NextRS == RSConstruct \/ GetShiftAmounts \/ EvalInPlace \/ InstShiftAmounts

SpecRS == Init /\ [][NextRS]_vars

----------------------------------------------------------------------------
(* Claims about the running sums *)

RECURSIVE SumOver(_, _)
SumOver(S, f) ==
  IF S = {} THEN 0
  ELSE LET x == CHOOSE y \in S : TRUE IN f[x] + SumOver(S \ {x}, f)

\* The row of entry (k, s) in the virtual interleaved matrix (k, s from 0)
VRow(k, s, B, stride) == k + B * (s \div stride)

\* The sum of all input entries in the column of (k, s) and in a row <= its row
ColumnPrefix(cts, k, s, stride) ==
  LET B == Len(cts)
      S == Len(cts[1].slots)
      cells == {c \in (0..(B - 1)) \X (0..(S - 1)) :
                  /\ c[2] % stride = s % stride
                  /\ VRow(c[1], c[2], B, stride) <= VRow(k, s, B, stride)}
  IN SumOver(cells, [c \in cells |-> cts[c[1] + 1].slots[c[2] + 1]])

\* C3: eval_in_place leaves a vector of the same length in which output k at
\* slot s is the sum of the input entries of the same column of the virtual
\* matrix in rows up to the row of (k, s), whatever the depth budget.
C3_RunningSums ==
  sphase = "evaluated" =>
    /\ Len(ctxts) = Len(inputs)
    /\ \A k \in 1..Len(inputs) : \A s \in 1..sargs.n_slots :
         ctxts[k].slots[s] = ColumnPrefix(inputs, k - 1, s - 1, sargs.stride)

C3_Witness ==
  /\ sphase = "evaluated"
  /\ Len(inputs) = 3
  /\ sargs.n_slots = 8
  /\ sargs.stride = 2
  /\ sargs.depth_budget = 3
  /\ inputs = DistinctCts(3, 8, sargs.level)
  /\ ctxts[3].slots[8] = ColumnPrefix(inputs, 2, 7, 2)
  /\ ctxts[3].slots[8] > inputs[3].slots[8]

IsPow2(n) == n >= 1 /\ n = Shl1(Log2(n))

\* C8: the constructor and the static get_shift_amounts raise an error
\* exactly when S is no power of two or sigma does not divide S, and return
\* normally for every other input, sigma = S and every budget included.
C8_ErrorsExactly ==
  /\ sphase \in {"built", "failed", "trapped"} =>
       (sphase = "built" <=> (IsPow2(sargs.n_slots) /\ sargs.n_slots % sargs.stride = 0))
  /\ sphase = "static" =>
       (shifts.st = "ok" <=> (IsPow2(sargs.n_slots) /\ sargs.n_slots % sargs.stride = 0))

LogIntervals == Log2(sargs.n_slots \div sargs.stride)

MinOf(a, b) == IF a <= b THEN a ELSE b

\* C9: the number of phases of the plan, which is the number of levels
\* eval_in_place adds to each ciphertext, is at most min(B_d, log2(S/sigma))
\* for B_d >= 1; a budget <= 0 or > log2(S/sigma) gives the plan of
\* B_d = log2(S/sigma).
C9_DepthBound ==
  sphase \in {"built", "evaluated"} =>
    /\ sargs.depth_budget >= 1 =>
         Len(rs_masks) <= MinOf(sargs.depth_budget, LogIntervals)
    /\ Len(rs_masks) <= LogIntervals
    /\ (sargs.depth_budget <= 0 \/ sargs.depth_budget > LogIntervals) =>
         \A ub \in DivZeroOutcomes :
           LET r == RunningSums(sargs.n_slots, sargs.stride, LogIntervals,
                                sargs.level, ub)
           IN r.st = "ok" => rs_masks = r.masks
    /\ sphase = "evaluated" =>
         \A k \in 1..Len(ctxts) : ctxts[k].level = sargs.level + Len(rs_masks)

C9_Witness ==
  /\ sphase = "evaluated"
  /\ LogIntervals = 3
  /\ sargs.depth_budget = 2
  /\ Len(rs_masks) = 2
  /\ ctxts[1].level = sargs.level + 2

\* C11: for the arguments a RunningSums object was built with, the static
\* get_shift_amounts, the instance method get_shift_amounts() and the amounts
\* eval_in_place passes to EvalRotate are one and the same set, and neither
\* list names an amount twice.
C11_SameAmounts ==
  sphase \in {"built", "evaluated"} =>
    \A ub \in DivZeroOutcomes :
      LET static == get_shift_amounts(sargs.n_slots, sargs.stride,
                                      sargs.depth_budget, ub)
      IN static.st = "ok" =>
           /\ Cardinality(SeqToSet(static.amounts)) = Len(static.amounts)
           /\ shifts.st = "ok" =>
                /\ SeqToSet(shifts.amounts) = SeqToSet(static.amounts)
                /\ Len(shifts.amounts) = Len(static.amounts)
           /\ sphase = "evaluated" => srots = SeqToSet(static.amounts)

C11_Witness ==
  /\ sphase = "evaluated"
  /\ shifts.st = "ok"
  /\ sargs.n_slots = 8
  /\ sargs.stride = 1
  /\ sargs.depth_budget = 2
  /\ srots = {-6, -4, -2, -1}
  /\ Len(shifts.amounts) = 4

----------------------------------------------------------------------------
(* The server run as a state machine: one action per stage of main, the    *)
(* enumeration loop one iteration at a time                                *)

Pow2Upto(n) == {Shl1(k) : k \in 0..Log2(n)}

\* Tree shapes for record dimension 2^ld: the flat tree and a two-level tree
TreeShapes(ld) ==
  IF ld = 1 THEN {<<2>>} ELSE {<<Shl1(ld)>>, <<Shl1(ld - 1), 2>>}

\* Instances with 64 rows per column as in InstanceParams, on small rings:
\* C columns, B batches, the last one full or short of MaxPad records, at
\* most MaxRecords records
InstancesOf(ld) ==
  {[recordDim |-> Shl1(ld), dbSize |-> cb[2] * 64 * cb[1] - pad,
    ringDim |-> 128 * cb[1], degrees |-> sh] :
     cb \in {x \in Pow2Upto(MaxCols) \X (1..MaxBatches) :
               x[2] * 64 * x[1] <= MaxRecords},
     pad \in {0, MaxPad}, sh \in TreeShapes(ld)}

\* A run of cnt hot records from h0 on, step apart; with `both`, the same
\* run once more one batch later
HotRun(prms, h0, step, cnt, both) ==
  LET run == {h0 + step * t : t \in 0..(cnt - 1)}
      all == IF both THEN run \cup {n + getNSlots(prms) : n \in run} ELSE run
  IN all \cap 0..(prms.dbSize - 1)

\* Where the runs start: the first rows, the last row of the first payload
\* block, the last rows of a ciphertext, the next batch, the last record
Starts(prms) ==
  {0, 1, (PAYLOAD_DIM - 1) * getNCols(prms),
   getNSlots(prms) - getNCols(prms), getNSlots(prms) - 1,
   getNSlots(prms), prms.dbSize - 1} \cap 0..(prms.dbSize - 1)

\* Neighbours in a ciphertext, in a column, and across batches
Strides(prms) == {1, getNCols(prms), getNSlots(prms)}

HotSets(prms) ==
  {{}} \cup
  {HotRun(prms, h0, step, cnt, both) :
     h0 \in Starts(prms), step \in Strides(prms),
     cnt \in {1, 3, MaxRun}, both \in BOOLEAN}

\* A few hot sets for the runs that vary the tree instead
FewHotSets(prms) ==
  {{}, HotRun(prms, 1, getNCols(prms), 3, TRUE)}

\* Files that may be unreadable
MissingChoices ==
  {{KeyFile(k)} : k \in {"cc", "pk", "mk", "rk", "query"}} \cup
  {{RowFile(0, 1)}, {PayloadFile(0, PAYLOAD_DIM - 1)}}

Worlds ==
  {[prms |-> p, hot |-> h, count_only |-> co, missing |-> {}] :
     <<p, h>> \in UNION {{<<q, g>> : g \in HotSets(q)} : q \in InstancesOf(1)},
     co \in BOOLEAN} \cup
  {[prms |-> p, hot |-> h, count_only |-> co, missing |-> {}] :
     <<p, h>> \in UNION {{<<q, g>> : g \in FewHotSets(q)} :
                            q \in UNION {InstancesOf(ld) : ld \in 2..MaxLogDim}},
     co \in BOOLEAN} \cup
  {[prms |-> p, hot |-> {0}, count_only |-> co, missing |-> m] :
     p \in {q \in InstancesOf(1) : q.ringDim = 128 /\ q.dbSize = 64},
     co \in BOOLEAN, m \in MissingChoices}

\* The server process at the entry of main, in any of the worlds
InitServer ==
  /\ RepIdle
  /\ RSIdle
  /\ CliIdle
  /\ world \in Worlds
  /\ pc = "start"
  /\ steps = <<>>
  /\ eqry = Null
  /\ result = <<>>
  /\ enum_i = 0
  /\ accumulator = Null
  /\ results_bin = <<>>
  /\ reads = {}
  /\ relin = <<>>
  /\ xrots = {}

\* constexpr double threshold = 0.8
threshold == (8 * ONE) \div 10

Fail == pc' = "failed"

\* Lines 112-149: cc.bin, pk.bin, mk.bin, rk.bin and query.bin, in this order
LoadKeys ==
  /\ pc = "start"
  /\ LET order == <<KeyFile("cc"), KeyFile("pk"), KeyFile("mk"),
                    KeyFile("rk"), KeyFile("query")>>
         absent == {t \in 1..5 : ~Readable(world, order[t])}
         upto == IF absent = {} THEN 5 ELSE Min(absent)
     IN /\ reads' = reads \cup {order[t] : t \in 1..upto}
        /\ IF absent = {}
           THEN /\ pc' = "loaded"
                /\ eqry' = encrypt_query(world.prms)
                /\ steps' = Append(steps, "Loading keys")
           ELSE Fail /\ UNCHANGED <<eqry, steps>>
  /\ UNCHANGED <<world, result, enum_i, accumulator, results_bin, relin, xrots>>
  /\ UNCHANGED <<repVars, rsVars, cliVars>>

\* Lines 153-154
MatVecMult ==
  /\ pc = "loaded"
  /\ LET out == mat_vec_mult(world, eqry)
     IN /\ reads' = reads \cup out.reads
        /\ relin' = out.events
        /\ xrots' = xrots \cup out.rots
        /\ IF out.st = "ok"
           THEN /\ pc' = "scored"
                /\ result' = out.acc
                /\ steps' = Append(steps, "Matrix-vector product")
           ELSE Fail /\ UNCHANGED <<result, steps>>
  /\ UNCHANGED <<world, eqry, enum_i, accumulator, results_bin>>
  /\ UNCHANGED <<repVars, rsVars, cliVars>>

\* Lines 165-166
CompareToThreshold ==
  /\ pc = "scored"
  /\ result' = compare_to_threshold(result, threshold, world.count_only)
  /\ steps' = Append(steps, "Compare to threshold")
  /\ pc' = "thresholded"
  /\ UNCHANGED <<world, eqry, enum_i, accumulator, results_bin, reads, relin,
                 xrots>>
  /\ UNCHANGED <<repVars, rsVars, cliVars>>

\* Lines 173-189: the count_only branch, up to `return 0`
Summation ==
  /\ pc = "thresholded"
  /\ world.count_only
  /\ LET total == count_matches(result, getNSlots(world.prms))
     IN /\ result' = [result EXCEPT ![1] = total]
        /\ results_bin' = Append(results_bin, total)
  /\ steps' = Append(steps, "Summation")
  /\ pc' = "done"
  /\ UNCHANGED <<world, eqry, enum_i, accumulator, reads, relin, xrots>>
  /\ UNCHANGED <<repVars, rsVars, cliVars>>

\* Lines 191-227: snapshot of the matches, running sums in the columns,
\* times the matches, minus 1
RunningSumsStage ==
  /\ pc = "thresholded"
  /\ ~world.count_only
  /\ \E ub \in DivZeroOutcomes :
       LET matches == result
           rs == RunningSums(getNSlots(world.prms), getNCols(world.prms),
                             RUNNING_SUM_LEVELS, result[1].level, ub)
           summed == eval_in_place(rs.masks, result)
       IN IF rs.st = "ok"
          THEN /\ result' = [k \in 1..Len(result) |->
                               EvalSub(EvalMult(summed[k], matches[k]), ONE)]
               /\ xrots' = xrots \cup eval_rotations(rs.masks)
               /\ steps' = Append(steps, "Running sums")
               /\ enum_i' = 1
               /\ pc' = "ranked"
          ELSE Fail /\ UNCHANGED <<result, xrots, steps, enum_i>>
  /\ UNCHANGED <<world, eqry, accumulator, results_bin, reads, relin>>
  /\ UNCHANGED <<repVars, rsVars, cliVars>>

\* Lines 255-318: one iteration of the loop over i
ExtractMatch ==
  /\ pc = "ranked"
  /\ enum_i <= getMaxNMatch
  /\ LET files == payload_reads(world)
         masked == extract_match(world, result, enum_i)
     IN /\ reads' = reads \cup files.reads
        /\ IF files.ok
           THEN /\ accumulator' = IF enum_i = 1 THEN masked
                                  ELSE EvalAdd(accumulator, masked)
                /\ xrots' = xrots \cup total_sums_rotations(world.prms) \cup
                              {payload_shift(j, getNCols(world.prms)) :
                                 j \in 1..(PAYLOAD_DIM - 1)}
                /\ enum_i' = enum_i + 1
                /\ pc' = "ranked"
           ELSE Fail /\ UNCHANGED <<accumulator, xrots, enum_i>>
  /\ UNCHANGED <<world, eqry, result, results_bin, steps, relin>>
  /\ UNCHANGED <<repVars, rsVars, cliVars>>

\* Lines 319-327: after the loop, results.bin is written
WriteResults ==
  /\ pc = "ranked"
  /\ enum_i > getMaxNMatch
  /\ steps' = Append(steps, "Output compression")
  /\ results_bin' = Append(results_bin, accumulator)
  /\ pc' = "done"
  /\ UNCHANGED <<world, eqry, result, enum_i, accumulator, reads, relin, xrots>>
  /\ UNCHANGED <<repVars, rsVars, cliVars>>

NextServer ==
  \/ LoadKeys
  \/ MatVecMult
  \/ CompareToThreshold
  \/ Summation
  \/ RunningSumsStage
  \/ ExtractMatch
  \/ WriteResults

SpecServer == InitServer /\ [][NextServer]_vars

----------------------------------------------------------------------------
(* Claims about the server run *)

\* The similarity of the query and record n, from the plaintext dataset
RECURSIVE InnerProduct(_, _, _)
InnerProduct(w, n, i) ==
  IF i < 0 THEN 0
  ELSE (QueryVal(i) * DbVal(w, n, i)) \div ONE + InnerProduct(w, n, i - 1)

Score(w, n) == InnerProduct(w, n, w.prms.recordDim - 1)

\* ceil(a / b) for positive a and b
CeilDiv(a, b) == CHOOSE q \in 0..a : q * b >= a /\ (q - 1) * b < a

\* The records whose score exceeds the threshold
Matching(w) == {n \in 0..(w.prms.dbSize - 1) : Score(w, n) > (8 * ONE) \div 10}

\* The events of mat_vec_mult that concern batch j
EventsOf(kind, j) == {t \in 1..Len(relin) : relin[t][1] = kind /\ relin[t][2] = j}

\* C5: mat_vec_mult returns B = ceil(N/S) ciphertexts; slot s of the j-th is
\* the inner product of the query and record j*S + s, and 0 in the padding
\* slots; every accumulator is relinearized exactly once, after its d
\* products were added.
C5_MatVecMult ==
  pc = "scored" =>
    LET S == world.prms.ringDim \div 2
        N == world.prms.dbSize
        d == world.prms.recordDim
        B == CeilDiv(N, S)
    IN /\ Len(result) = B
       /\ \A j \in 0..(B - 1), s \in 0..(S - 1) :
            result[j + 1].slots[s + 1] =
              IF j * S + s < N THEN Score(world, j * S + s) ELSE 0
       /\ \A j \in 0..(B - 1) :
            /\ Cardinality(EventsOf("relin", j)) = 1
            /\ Cardinality(EventsOf("mult", j)) = d
            /\ {relin[t][3] : t \in EventsOf("mult", j)} = 0..(d - 1)
            /\ \A t \in EventsOf("mult", j), u \in EventsOf("relin", j) : t < u

\* Two batches, the second one padded, a two-level tree and hot records
C5_Witness ==
  /\ pc = "scored"
  /\ Len(result) = 2
  /\ world.prms.dbSize < world.prms.ringDim
  /\ Len(world.prms.degrees) = 2
  /\ world.hot # {}
  /\ Len(relin) = 2 * world.prms.recordDim + 2

\* C6: in count-only mode the one ciphertext written to results.bin holds
\* the number of records whose score exceeds the threshold in every slot;
\* it is written right after the threshold stage, no later stage runs and
\* no payload file is read.
C6_CountOnly ==
  (pc = "done" /\ world.count_only) =>
    LET S == world.prms.ringDim \div 2
        count == Cardinality(Matching(world))
    IN /\ Len(results_bin) = 1
       /\ \A s \in 1..S : results_bin[1].slots[s] = count * ONE
       /\ steps = <<"Loading keys", "Matrix-vector product",
                    "Compare to threshold", "Summation">>
       /\ \A f \in reads : f.kind # "payload"
       /\ enum_i = 0
       /\ accumulator = Null

\* A count over two batches with matches in both
C6_Witness ==
  /\ pc = "done"
  /\ world.count_only
  /\ Len(result) = 2
  /\ \E n \in Matching(world) : n < world.prms.ringDim \div 2
  /\ \E n \in Matching(world) : n >= world.prms.ringDim \div 2
  /\ Len(results_bin) = 1

\* Column and virtual row of record n: slot s = n mod S of ciphertext
\* k = n div S lies in column s mod C, at virtual row k + B*(s div C)
ColumnOf(w, n) == (n % (w.prms.ringDim \div 2)) % (w.prms.ringDim \div 128)

VirtualRow(w, n) ==
  LET S == w.prms.ringDim \div 2
      C == w.prms.ringDim \div 128
  IN (n \div S) + CeilDiv(w.prms.dbSize, S) * ((n % S) \div C)

\* The matches of column c, and the i-th of them in virtual-row order
ColumnMatches(w, c) == {n \in Matching(w) : ColumnOf(w, n) = c}

IthMatch(w, c, i) ==
  CHOOSE n \in ColumnMatches(w, c) :
    Cardinality({m \in ColumnMatches(w, c) :
                   VirtualRow(w, m) < VirtualRow(w, n)}) = i - 1

\* The j-th payload slot of record n as the client will decode it
PayloadSlot(n, j) ==
  (IF j = 0 THEN 512 * 16 ELSE PayloadVal(n, j)) * (ONE \div 16)

----------------------------------------------------------------------------
(* Key generation and the rotations of the server as a state machine *)

\* client_key_generation: main with argv[1] = size
KeyGen ==
  /\ call.op = "none"
  /\ \E size \in (TOY - 1)..(LARGE + 1), ub \in DivZeroOutcomes :
       LET p == InstanceParams(size)
           k == key_gen(p.prms, ub)
       IN /\ call' = [op |-> "key_gen", size |-> size]
          /\ outcome' = IF p.st = "ok" THEN [st |-> k.st] ELSE [st |-> "throw"]
          /\ rk_bin' = IF p.st = "ok" THEN k.keys ELSE {}
  /\ UNCHANGED io_results_bin
  /\ UNCHANGED <<repVars, rsVars, srvVars>>

\* The server, started on the same instance with the keys of rk.bin, asks
\* the backend for one of the rotations of its run
ServerRotate ==
  /\ call.op \in {"key_gen", "EvalRotate"}
  /\ outcome.st = "ok"
  /\ \E level \in 0..MaxTopLevel, ub \in DivZeroOutcomes :
       \E r \in full_run_rotations(InstanceParams(call.size).prms, level, ub) :
         /\ call' = [op |-> "EvalRotate", size |-> call.size,
                     stage |-> r[1], k |-> r[2]]
         /\ outcome' = [st |-> IF AutomorphismOf(r[2],
                                    getNSlots(InstanceParams(call.size).prms))
                                  \in rk_bin
                               THEN "ok" ELSE "no key"]
  /\ UNCHANGED <<rk_bin, io_results_bin>>
  /\ UNCHANGED <<repVars, rsVars, srvVars>>

NextKeys == KeyGen \/ ServerRotate

SpecKeys == Init /\ [][NextKeys]_vars

\* C12: for each of the four instance sizes, every rotation the server asks
\* for in a full run - by the replication tree, the running sums, the payload
\* shifts and total_sums - has its key among those key generation registered.
C12_KeysCover ==
  /\ call.op = "EvalRotate" => outcome.st = "ok"
  /\ (call.op = "key_gen" /\ call.size \in TOY..LARGE) =>
       /\ outcome.st = "ok"
       /\ \A level \in 0..MaxTopLevel, ub \in DivZeroOutcomes :
            \A r \in full_run_rotations(InstanceParams(call.size).prms, level, ub) :
              AutomorphismOf(r[2], getNSlots(InstanceParams(call.size).prms))
                \in rk_bin

C12_Witness ==
  /\ call.op = "EvalRotate"
  /\ call.size = LARGE
  /\ call.stage = "total sums"
  /\ call.k = 16384
  /\ outcome.st = "ok"

----------------------------------------------------------------------------
(* Claims about the files of the server run *)

\* The files a run opens when none is missing: the four key files and the
\* query (lines 112-148), every row of every batch (mat_vec_mult, lines
\* 364-368) and, unless --count_only ends the run at line 188, every payload
\* file (get_encrypted_payload, lines 486-491)
files_opened(w) ==
  {KeyFile(k) : k \in {"cc", "pk", "mk", "rk", "query"}} \cup
  {RowFile(k, i) : k \in 0..(getNCtxts(w.prms) - 1),
                   i \in 0..(w.prms.recordDim - 1)} \cup
  (IF w.count_only THEN {}
   ELSE {PayloadFile(k, j) : k \in 0..(getNCtxts(w.prms) - 1),
                             j \in 0..(PAYLOAD_DIM - 1)})

\* The stages logged before results.bin is written
stages_before_write(w) ==
  IF w.count_only
  THEN <<"Loading keys", "Matrix-vector product", "Compare to threshold",
         "Summation">>
  ELSE <<"Loading keys", "Matrix-vector product", "Compare to threshold",
         "Running sums", "Output compression">>

\* results.bin in this state: nothing before the end, one ciphertext at the
\* end of a run that logged all its stages
WrittenOnlyAtEnd ==
  /\ Len(results_bin) <= 1
  /\ results_bin # <<>> => pc = "done" /\ steps = stages_before_write(world)
  /\ pc = "failed" => results_bin = <<>>

\* A write is the step that ends the run
WriteEndsRun ==
  results_bin' # results_bin =>
    /\ results_bin = <<>>
    /\ pc' = "done"
    /\ steps' = stages_before_write(world)
    /\ Len(results_bin') = 1

\* C15 as stated: results.bin is written at most once, as the last step after
\* all stages; if any key, query, row or payload file is missing the run
\* fails and writes nothing
C15_AnyMissingFileFails ==
  /\ WrittenOnlyAtEnd
  /\ world.missing # {} => pc # "done" /\ results_bin = <<>>

\* C15, amended: results.bin is written at most once, by the step that ends
\* the run, after all stages were logged; if a file the run opens is missing
\* (keys, query, rows, and payloads unless --count_only) the run never
\* completes and writes nothing, and a failed run has written nothing
C15_WrittenOnceAtEnd ==
  /\ [](WrittenOnlyAtEnd /\
        (world.missing \cap files_opened(world) # {} =>
           pc # "done" /\ results_bin = <<>>))
  /\ [][WriteEndsRun]_vars

\* A full run that found a payload file missing in the first iteration of
\* the enumeration, after all earlier stages, and failed without a write
C15_Witness ==
  /\ pc = "failed"
  /\ ~world.count_only
  /\ world.missing = {PayloadFile(0, PAYLOAD_DIM - 1)}
  /\ steps = <<"Loading keys", "Matrix-vector product", "Compare to threshold",
               "Running sums">>
  /\ PayloadFile(0, PAYLOAD_DIM - 1) \in reads
  /\ results_bin = <<>>

----------------------------------------------------------------------------
(* The entry of every executable: arguments, input files, exit status *)

\* A command-line argument is a sequence of characters; NoArg stands for an
\* argument that was not given (argc < 2)
NoArg == <<"(none)">>

DigitChars == <<"0", "1", "2", "3", "4", "5", "6", "7", "8", "9">>

\* std::isdigit of the first character; the empty string starts with '\0'
isdigit_first(arg) ==
  /\ arg # <<>>
  /\ \E d \in 1..10 : DigitChars[d] = arg[1]

DigitVal(c) == (CHOOSE d \in 1..10 : DigitChars[d] = c) - 1

\* The value of the leading digits of str from position i on
RECURSIVE ParseDigits(_, _, _)
ParseDigits(str, i, acc) ==
  IF i > Len(str) \/ ~isdigit_first(<<str[i]>>) THEN acc
  ELSE ParseDigits(str, i + 1, 10 * acc + DigitVal(str[i]))

\* std::stoi(str): an optional sign, then the longest run of digits; what
\* follows the digits is ignored; std::invalid_argument without a digit
stoi(str) ==
  LET signed == str # <<>> /\ str[1] \in {"-", "+"}
      from == IF signed THEN 2 ELSE 1
      val == ParseDigits(str, from, 0)
  IN IF from > Len(str) \/ ~isdigit_first(<<str[from]>>)
     THEN [st |-> "throw"]
     ELSE [st |-> "ok", val |-> IF signed /\ str[1] = "-" THEN -val ELSE val]

\* How a process ends: main returns a status, or an exception nobody catches
\* reaches std::terminate, which aborts the process (a nonzero status)
Returned(code) == [st |-> "returned", code |-> code]
Aborted == [st |-> "aborted"]

Executables ==
  {"client_preprocess_dataset", "client_key_generation",
   "client_encode_encrypt_db", "client_encode_encrypt_query",
   "server_encrypted_compute", "client_decrypt_decode", "client_postprocess"}

\* The usage test at the entry of main: argc < 2 in every client, and also a
\* first character that is no digit in the server; both print the usage
\* text and return 0
usage_exit(exe, arg) ==
  IF exe = "client_preprocess_dataset" THEN [exits |-> FALSE]
  ELSE IF \/ arg = NoArg
          \/ exe = "server_encrypted_compute" /\ ~isdigit_first(arg)
       THEN [exits |-> TRUE, code |-> 0]
       ELSE [exits |-> FALSE]

\* main of exe with first argument arg; inputs_ok says whether every input
\* file of the run can be read and decoded. client_preprocess_dataset is
\* `int main() { return 0; }`
main_exit(exe, arg, inputs_ok) ==
  LET usage == usage_exit(exe, arg)
      size == stoi(arg)
  IN IF exe = "client_preprocess_dataset" THEN Returned(0)
     ELSE IF usage.exits THEN Returned(usage.code)
     ELSE IF size.st = "throw" THEN Aborted
     ELSE IF InstanceParams(size.val).st # "ok" THEN Aborted
     ELSE IF ~inputs_ok THEN Aborted
     ELSE Returned(0)

\* The arguments tried: none, valid sizes, sizes out of range, no number, the
\* empty string, a number followed by something else
Args ==
  {NoArg, <<>>, <<"0">>, <<"1">>, <<"2">>, <<"3">>, <<"4">>, <<"9">>,
   <<"1", "2">>, <<"-", "1">>, <<"+", "2">>, <<"x">>, <<"t", "o", "y">>,
   <<"-">>, <<"3", "x">>}

\* One run of one executable, from its start to its exit
Main ==
  /\ call.op \in {"none", "main"}
  /\ \E exe \in Executables, arg \in Args, inputs_ok \in BOOLEAN :
       /\ call' = [op |-> "main", exe |-> exe, arg |-> arg,
                   inputs_ok |-> inputs_ok]
       /\ outcome' = main_exit(exe, arg, inputs_ok)
  /\ UNCHANGED <<rk_bin, io_results_bin>>
  /\ UNCHANGED <<repVars, rsVars, srvVars>>

NextMain == Main

SpecMain == Init /\ [][NextMain]_vars

\* The process ended with exit code 0
ExitZero == outcome = Returned(0)

\* The run did what the executable is for: it was given a size in 0..3 and
\* could read its inputs (client_preprocess_dataset has nothing to do)
RunSucceeded ==
  \/ call.exe = "client_preprocess_dataset"
  \/ /\ call.arg # NoArg
     /\ stoi(call.arg).st = "ok"
     /\ stoi(call.arg).val \in TOY..LARGE
     /\ call.inputs_ok

\* C16 as stated: exit code 0 only when the run succeeded; a missing or
\* non-numeric size argument, a size outside {0,1,2,3} and a missing or
\* undecodable input file all end with a nonzero exit code
C16_ExitCodes ==
  call.op = "main" =>
    /\ ExitZero => RunSucceeded
    /\ ~RunSucceeded => ~ExitZero

\* What the code does guarantee: a size that std::stoi reads and that is
\* outside 0..3, and an unreadable input after a valid size, end the
\* process with a nonzero status; a successful run exits with 0
C16_FailuresPastUsage ==
  call.op = "main" /\ ~usage_exit(call.exe, call.arg).exits =>
    (ExitZero <=> RunSucceeded)

\* The server started without an argument has printed the usage text and
\* returned 0
C16_Witness ==
  /\ call.op = "main"
  /\ call.exe = "server_encrypted_compute"
  /\ call.arg = NoArg
  /\ ExitZero

----------------------------------------------------------------------------
(* client_postprocess.cpp *)

\* The doubles of raw-result.bin are taken from the grid of multiples of
\* 1/GRID, on which v / PAYLOAD_PRECISION and 1.4 * MAX_PAYLOAD_VAL are exact
GRID == 5 * PAYLOAD_PRECISION

\* std::round of a / b for b > 0: to the nearest, halves away from zero
RoundDiv(a, b) ==
  IF a >= 0 THEN (2 * a + b) \div (2 * b)
  ELSE -((2 * (-a) + b) \div (2 * b))

\* RunningSums::to_matrix_form({slots}, n_cols) at row i, column j (from 0)
result_matrix(slots, n_cols, i, j) == slots[n_cols * i + j + 1]

\* Lines 47-54: the first largest positive value among the PAYLOAD_DIM rows
\* from row i on in column j; marker -1 and maxval 0 if none is positive
RECURSIVE find_marker(_, _, _, _, _, _)
find_marker(slots, n_cols, i, j, ii, best) ==
  IF ii >= PAYLOAD_DIM THEN best
  ELSE LET x == result_matrix(slots, n_cols, i + ii, j)
       IN find_marker(slots, n_cols, i, j, ii + 1,
                      IF x > best.maxval THEN [marker |-> ii, maxval |-> x]
                      ELSE best)

\* Lines 57-59: the test that takes a block for an error
marker_too_small_Never(maxval) == FALSE

marker_too_small(maxval) == 10 * maxval < 14 * MAX_PAYLOAD_VAL * GRID

\* Line 73: the index of the k-th value after the marker
after_marker_Unrotated(marker, k) == k

after_marker(marker, k) == (marker + k) % PAYLOAD_DIM

\* Lines 55-77 for the block from row i on in column j: nothing, an error
\* with the values of the block, or the record after the marker, rescaled
decode_block(slots, n_cols, i, j) ==
  LET found == find_marker(slots, n_cols, i, j, 0,
                           [marker |-> -1, maxval |-> 0])
      at(k) == result_matrix(slots, n_cols, i + k, j)
  IN IF ~(found.maxval > MAX_PAYLOAD_VAL * GRID) THEN [st |-> "none"]
     ELSE IF marker_too_small(found.maxval)
          THEN [st |-> "throw",
                what |-> [k \in 1..PAYLOAD_DIM |-> at(k - 1)]]
          ELSE [st |-> "ok",
                rec |-> [k \in 1..(PAYLOAD_DIM - 1) |->
                  RoundDiv(MAX_PAYLOAD_VAL * 2 * PAYLOAD_PRECISION *
                             at(after_marker(found.marker, k)),
                           at(found.marker))]]

\* operator< of std::vector<int16_t>: lexicographic
RECURSIVE LexLess(_, _, _)
LexLess(a, b, k) ==
  IF k > Len(b) THEN FALSE
  ELSE IF k > Len(a) THEN TRUE
  ELSE IF a[k] # b[k] THEN a[k] < b[k]
  ELSE LexLess(a, b, k + 1)

\* std::sort of the records
RECURSIVE SortRecs(_)
SortRecs(recs) ==
  IF recs = <<>> THEN <<>>
  ELSE LET t == CHOOSE u \in 1..Len(recs) :
                  \A v \in 1..Len(recs) : ~LexLess(recs[v], recs[u], 1)
           rest == [v \in 1..(Len(recs) - 1) |->
                      IF v < t THEN recs[v] ELSE recs[v + 1]]
       IN <<recs[t]>> \o SortRecs(rest)

\* The loops of lines 45-46 from block t on, blocks numbered column by
\* column; the first error ends them
RECURSIVE decode_loop(_, _, _, _)
decode_loop(slots, n_cols, t, obtained_vals) ==
  LET n_blocks == (Len(slots) \div n_cols) \div PAYLOAD_DIM
      b == decode_block(slots, n_cols, PAYLOAD_DIM * (t % n_blocks),
                        t \div n_blocks)
  IN IF t >= n_cols * n_blocks
     THEN [st |-> "ok", recs |-> SortRecs(obtained_vals)]
     ELSE IF b.st = "throw" THEN b
     ELSE decode_loop(slots, n_cols, t + 1,
                      IF b.st = "ok" THEN Append(obtained_vals, b.rec)
                      ELSE obtained_vals)

decode_results(slots, n_cols) == decode_loop(slots, n_cols, 0, <<>>)

\* client_encode_encrypt_db.cpp, add_markers and the division of lines
\* 61-63: the PAYLOAD_DIM stored values of a payload record
stored_payload(p) ==
  [k \in 1..PAYLOAD_DIM |->
     ((IF k = 1 THEN 2 * MAX_PAYLOAD_VAL * PAYLOAD_PRECISION ELSE p[k - 1])
        * GRID) \div PAYLOAD_PRECISION]

\* The block a record occupies after the server rotated it by offset rows
rotated_block(p, offset) ==
  [k \in 1..PAYLOAD_DIM |->
     stored_payload(p)[((k - 1 - offset) % PAYLOAD_DIM) + 1]]

\* Bounds of the decoded inputs: columns, blocks per column, and the number
\* of blocks up to which every kind of block is tried in every place
MaxPostCols == 2
MaxPostBlocks == 2
MaxFullBlocks == 2

\* Payload records: the least and the largest values, and distinct ones
Payloads ==
  {[k \in 1..(PAYLOAD_DIM - 1) |-> 0],
   [k \in 1..(PAYLOAD_DIM - 1) |-> MAX_PAYLOAD_VAL * PAYLOAD_PRECISION - 1],
   [k \in 1..(PAYLOAD_DIM - 1) |-> 500 * k + 1]}

\* Blocks without a record: zeros, small and negative values, a maximum of
\* exactly MAX_PAYLOAD_VAL, values between MAX_PAYLOAD_VAL and 1.4 times it,
\* exactly 1.4 times it, and a marker that came out too large
OtherBlocks ==
  {[k \in 1..PAYLOAD_DIM |-> 0],
   [k \in 1..PAYLOAD_DIM |-> IF k = 3 THEN -GRID ELSE k],
   [k \in 1..PAYLOAD_DIM |-> IF k = 8 THEN MAX_PAYLOAD_VAL * GRID ELSE 0],
   [k \in 1..PAYLOAD_DIM |-> IF k = 2 THEN MAX_PAYLOAD_VAL * GRID + 1 ELSE k],
   [k \in 1..PAYLOAD_DIM |->
      IF k = 5 THEN (14 * MAX_PAYLOAD_VAL * GRID) \div 10 - 1 ELSE GRID],
   [k \in 1..PAYLOAD_DIM |->
      IF k = 1 THEN (14 * MAX_PAYLOAD_VAL * GRID) \div 10 ELSE 0],
   [k \in 1..PAYLOAD_DIM |->
      IF k = 4 THEN 2 * MAX_PAYLOAD_VAL * GRID + 3 ELSE 7 * k]}

Blocks ==
  {[kind |-> "record", payload |-> p, offset |-> o,
    vals |-> rotated_block(p, o)] : p \in Payloads, o \in 0..(PAYLOAD_DIM - 1)}
  \cup {[kind |-> "other", vals |-> v] : v \in OtherBlocks}

\* For the larger results: a record moved by 3 rows, an empty block and a
\* block that is an error
FewBlocks ==
  {b \in Blocks :
     \/ b.kind = "record" /\ b.payload[1] = 501 /\ b.offset = 3
     \/ b.kind = "other" /\ b.vals[1] = GRID
     \/ b.kind = "other" /\ \A k \in 1..PAYLOAD_DIM : b.vals[k] = 0}

\* The slots of a result whose block t (column by column) is blocks[t + 1]
slots_of(blocks, n_cols) ==
  LET n_blocks == Len(blocks) \div n_cols
  IN [s \in 1..(Len(blocks) * PAYLOAD_DIM) |->
        LET i == (s - 1) \div n_cols
            j == (s - 1) % n_cols
        IN blocks[j * n_blocks + (i \div PAYLOAD_DIM) + 1]
             .vals[(i % PAYLOAD_DIM) + 1]]

\* main, lines 27-36, on a raw-result.bin with these slots: decode, then
\* write results.bin; an exception of decode_results ends the process
Postprocess ==
  /\ call.op = "none"
  /\ \E n_cols \in 1..MaxPostCols, n_blocks \in 1..MaxPostBlocks :
       \E blocks \in [1..(n_cols * n_blocks) ->
                        IF n_cols * n_blocks <= MaxFullBlocks THEN Blocks
                        ELSE FewBlocks] :
         LET slots == slots_of(blocks, n_cols)
             res == decode_results(slots, n_cols)
         IN /\ call' = [op |-> "postprocess", n_cols |-> n_cols,
                        blocks |-> blocks, slots |-> slots]
            /\ outcome' = res
            /\ io_results_bin' = IF res.st = "ok"
                                 THEN Append(io_results_bin, res.recs)
                                 ELSE io_results_bin
  /\ UNCHANGED rk_bin
  /\ UNCHANGED <<repVars, rsVars, srvVars>>

NextPost == Postprocess

SpecPost == Init /\ [][NextPost]_vars

----------------------------------------------------------------------------
(* Claims about decode_results *)

\* The largest value of a block
BlockMax(vals) == CHOOSE x \in SeqToSet(vals) : \A y \in SeqToSet(vals) : y <= x

\* A block whose largest value is above MAX_PAYLOAD_VAL
Loud(b) == BlockMax(b.vals) > MAX_PAYLOAD_VAL * GRID

\* A block whose largest value is above MAX_PAYLOAD_VAL and below 1.4 times
\* MAX_PAYLOAD_VAL
Anomalous(b) ==
  /\ Loud(b)
  /\ 10 * BlockMax(b.vals) < 14 * MAX_PAYLOAD_VAL * GRID

\* How often rec occurs in the list recs
Occurrences(recs, rec) == Cardinality({t \in 1..Len(recs) : recs[t] = rec})

\* C17: a payload record, stored with its marker and divided by
\* PAYLOAD_PRECISION in an aligned block of PAYLOAD_DIM rows and rotated
\* cyclically by any offset, is decoded to exactly its PAYLOAD_DIM-1 integers
\* in their order: the list returned holds one record per block whose
\* maximum exceeds MAX_PAYLOAD_VAL and none for the other blocks, it is
\* sorted, every stored payload is in it as often as it was stored, and if
\* only record blocks exceed MAX_PAYLOAD_VAL the list holds nothing else
C17_RoundTrip ==
  call.op = "postprocess" /\ outcome.st = "ok" =>
    LET blocks == call.blocks
        recs == outcome.recs
        stored(p) == {t \in 1..Len(blocks) :
                        blocks[t].kind = "record" /\ blocks[t].payload = p}
    IN /\ Len(recs) = Cardinality({t \in 1..Len(blocks) : Loud(blocks[t])})
       /\ \A t \in 1..(Len(recs) - 1) : ~LexLess(recs[t + 1], recs[t], 1)
       /\ \A p \in Payloads : Occurrences(recs, p) >= Cardinality(stored(p))
       /\ (\A t \in 1..Len(blocks) : Loud(blocks[t]) => blocks[t].kind = "record")
            => \A t \in 1..Len(recs) :
                 /\ recs[t] \in Payloads
                 /\ Occurrences(recs, recs[t]) = Cardinality(stored(recs[t]))

\* A result with an empty first column and, in the second column, a record
\* whose marker stands in row 5 of the block: the record comes back
C17_Witness ==
  /\ call.op = "postprocess"
  /\ call.n_cols = 2
  /\ Len(call.blocks) = 2
  /\ call.blocks[1].vals = [k \in 1..PAYLOAD_DIM |-> 0]
  /\ call.blocks[2].kind = "record"
  /\ call.blocks[2].offset = 5
  /\ call.slots[2 * 5 + 2] = 2 * MAX_PAYLOAD_VAL * GRID
  /\ outcome = [st |-> "ok",
                recs |-> <<[k \in 1..(PAYLOAD_DIM - 1) |-> 500 * k + 1]>>]

\* The blocks before block t, in the order of the loops, hold no error
FirstAnomalous(blocks, t) ==
  /\ Anomalous(blocks[t])
  /\ \A u \in 1..(t - 1) : ~Anomalous(blocks[u])

\* C18: decode_results throws exactly when the maximum of some block is
\* above MAX_PAYLOAD_VAL and below 1.4 * MAX_PAYLOAD_VAL; the error carries
\* the PAYLOAD_DIM values of such a block, no list is returned and main
\* writes no results file; otherwise main writes the list once
C18_ErrorExactly ==
  call.op = "postprocess" =>
    LET blocks == call.blocks
    IN /\ outcome.st = "throw" <=> \E t \in 1..Len(blocks) : Anomalous(blocks[t])
       /\ outcome.st = "throw" =>
            /\ \E t \in 1..Len(blocks) :
                 FirstAnomalous(blocks, t) /\ outcome.what = blocks[t].vals
            /\ DOMAIN outcome = {"st", "what"}
            /\ io_results_bin = <<>>
       /\ outcome.st # "throw" =>
            outcome.st = "ok" /\ io_results_bin = <<outcome.recs>>

\* A result with a record in the first block and, below it, a block whose
\* largest value is just under 1.4 * MAX_PAYLOAD_VAL: the error names the
\* values of the second block and nothing is written
C18_Witness ==
  /\ call.op = "postprocess"
  /\ call.n_cols = 1
  /\ Len(call.blocks) = 2
  /\ call.blocks[1].kind = "record"
  /\ call.blocks[2].vals[5] = (14 * MAX_PAYLOAD_VAL * GRID) \div 10 - 1
  /\ outcome.st = "throw"
  /\ outcome.what = call.blocks[2].vals
  /\ io_results_bin = <<>>

----------------------------------------------------------------------------
(* The parameters of the four instances and the tree mat_vec_mult builds *)

\* The tests of the DFSSlotReplicator constructor and of the ReplicatorNode
\* constructors it calls, without the masks: what the constructor does with
\* these arguments
RECURSIVE ctor_checks_nodes(_, _, _, _)
ctor_checks_nodes(num_slots, degs, k, rot_amt) ==
  IF k > Len(degs) THEN "ok"
  ELSE IF degs[k] = 0 THEN "abort"
  ELSE LET amt == CDiv(rot_amt, degs[k])
       IN IF degs[k] < 2 THEN "throw"
          ELSE IF amt * degs[k] = 0 \/ CMod(num_slots, amt * degs[k]) # 0
               THEN "abort"
               ELSE ctor_checks_nodes(num_slots, degs, k + 1, amt)

ctor_checks(num_slots, tree_degrees, input_replication) ==
  IF input_replication <= 0 THEN "throw"
  ELSE IF CMod(num_slots, input_replication) # 0 THEN "throw"
  ELSE IF MaxElement(tree_degrees) < 2 THEN "throw"
  ELSE IF num_slots # input_replication * Product(tree_degrees) THEN "throw"
  ELSE ctor_checks_nodes(num_slots, tree_degrees, 1,
                         CDiv(num_slots, input_replication))

\* The replicas are pulled on a ring of at most 2^MaxLogInstSlots slots: the
\* toy instance on its own ring, the others on a ring with the same record
\* dimension and the same degrees
MaxLogInstSlots == 9

pulled_slots(prms) ==
  IF getNSlots(prms) <= Shl1(MaxLogInstSlots) THEN getNSlots(prms)
  ELSE Shl1(MaxLogInstSlots)

\* InstanceParams prms(size), for the sizes of the enum and their neighbours
NewInstance ==
  /\ call.op = "none"
  /\ \E size \in (TOY - 2)..(LARGE + 2) :
       /\ call' = [op |-> "InstanceParams", size |-> size]
       /\ outcome' = InstanceParams(size)
  /\ UNCHANGED <<rk_bin, io_results_bin>>
  /\ UNCHANGED <<repVars, rsVars, srvVars>>

\* mat_vec_mult, lines 352-353: n_reps = getNSlots() / getRecordDim() and the
\* constructor of the replicator
InstReplicator ==
  /\ call.op = "InstanceParams"
  /\ outcome.st = "ok"
  /\ rphase = "new"
  /\ LET prms == outcome.prms
         num_slots == pulled_slots(prms)
         n_reps == CDiv(num_slots, prms.recordDim)
         r == DFSSlotReplicator(num_slots, prms.degrees, n_reps)
     IN /\ rargs' = [num_slots |-> num_slots, tree_degrees |-> prms.degrees,
                     input_replication |-> n_reps]
        /\ rphase' = IF r.st = "ok" THEN "built" ELSE "failed"
        /\ nodes' = r.nodes
  /\ lastop' = "ctor"
  /\ UNCHANGED <<src, ret, produced, rots, batch, before>>
  /\ UNCHANGED <<rsVars, srvVars, cliVars>>

\* The header of the loop of lines 357-358: replicator.init(qry) first, then
\* replicator.next_replica() until a null pointer comes back
InstPull ==
  /\ call.op = "InstanceParams"
  /\ rphase = "built"
  /\ lastop = "ctor" \/ ret # Null
  /\ LET qry == PeriodicCt(1, rargs.num_slots, outcome.prms.recordDim)
         r == IF lastop = "ctor" THEN init(nodes, Len(nodes), qry)
              ELSE next_replica(nodes, Len(nodes))
     IN /\ nodes' = r.nodes
        /\ ret' = r.ret
        /\ rots' = rots \cup r.rots
        /\ produced' = IF r.ret = Null THEN produced ELSE produced + 1
        /\ src' = qry
  /\ lastop' = IF lastop = "ctor" THEN "init" ELSE "next"
  /\ UNCHANGED <<rphase, rargs, batch, before>>
  /\ UNCHANGED <<rsVars, srvVars, cliVars>>

NextInst == NewInstance \/ InstReplicator \/ InstPull

SpecInst == Init /\ [][NextInst]_vars

\* The table of the four instances: d, N, ring_dim, degrees
NormativeTable ==
  <<[recordDim |-> 128, dbSize |-> 1000, ringDim |-> 1024,
     degrees |-> <<8, 4, 4>>],
    [recordDim |-> 128, dbSize |-> 50000, ringDim |-> 65536,
     degrees |-> <<8, 4, 4>>],
    [recordDim |-> 256, dbSize |-> 1000000, ringDim |-> 65536,
     degrees |-> <<8, 8, 4>>],
    [recordDim |-> 512, dbSize |-> 20000000, ringDim |-> 65536,
     degrees |-> <<16, 8, 4>>]>>

\* C19: InstanceParams gives the parameters of the table for sizes 0..3 and
\* rejects every other size, negative ones too; S = ring_dim/2,
\* C = ring_dim/128, B = ceil(N/S), MaxNMatch = 8; the degrees are at least
\* 2 and multiply to d, d divides S and (S/d) times their product is S; the
\* constructor of the replicator accepts them with rho = S/d, and the loop of
\* mat_vec_mult gets exactly d replicas before the null pointer
C19_Instances ==
  call.op = "InstanceParams" =>
    /\ outcome.st = "ok" <=> call.size \in 0..3
    /\ outcome.st # "ok" => outcome = [st |-> "throw"] /\ rphase = "new"
    /\ outcome.st = "ok" =>
         LET prms == outcome.prms
             S == getNSlots(prms)
             d == prms.recordDim
         IN /\ prms = NormativeTable[call.size + 1]
            /\ 2 * S = prms.ringDim
            /\ 128 * getNCols(prms) = prms.ringDim
            /\ getNCtxts(prms) * S >= prms.dbSize
            /\ (getNCtxts(prms) - 1) * S < prms.dbSize
            /\ getMaxNMatch = 8
            /\ \A k \in 1..Len(prms.degrees) : prms.degrees[k] >= 2
            /\ Product(prms.degrees) = d
            /\ S % d = 0
            /\ (S \div d) * Product(prms.degrees) = S
            /\ ctor_checks(S, prms.degrees, S \div d) = "ok"
            /\ rphase # "failed"
            /\ rphase = "built" =>
                 /\ ctor_checks(rargs.num_slots, rargs.tree_degrees,
                                rargs.input_replication) = "ok"
                 /\ rargs.num_slots \div rargs.input_replication = d
                 /\ produced <= d
                 /\ lastop \in {"init", "next"} /\ ret = Null => produced = d
                 /\ lastop \in {"init", "next"} /\ ret # Null =>
                      \A s \in 1..rargs.num_slots :
                        ret.slots[s] = src.slots[produced]

\* The loop over the replicas of the large instance has ended: 512 replicas
\* came, then the null pointer
C19_Witness ==
  /\ call = [op |-> "InstanceParams", size |-> LARGE]
  /\ outcome.prms.dbSize = 20000000
  /\ getNCtxts(outcome.prms) = 611
  /\ rphase = "built"
  /\ lastop = "next"
  /\ ret = Null
  /\ produced = 512

----------------------------------------------------------------------------
(* DFSSlotReplicator::suggest_degrees *)

\* Lines 302-305: degree 2 for the levels that remain
RECURSIVE suggest_twos(_, _)
suggest_twos(degrees, num_outputs) ==
  IF num_outputs > 1
  THEN suggest_twos(Append(degrees, 2), CDiv(num_outputs, 2))
  ELSE degrees

\* suggest_degrees(num_outputs) for a power of two: flat up to 8 outputs,
\* else a root of degree 8, a node of degree 4 if at least 4 outputs remain
\* below the root, and degree 2 below
suggest_degrees(num_outputs) ==
  IF num_outputs <= 8 THEN <<num_outputs>>
  ELSE LET below == CDiv(num_outputs, 8)
       IN IF below >= 4
          THEN suggest_twos(<<8, 4>>, CDiv(below, 4))
          ELSE suggest_twos(<<8>>, below)

\* Bound: slot counts and numbers of outputs 2^0 .. 2^MaxLogOutputs
MaxLogOutputs == 9

\* auto degrees = DFSSlotReplicator::suggest_degrees(num_outputs)
Suggest ==
  /\ call.op = "none"
  /\ \E num_outputs \in Pow2Upto(Shl1(MaxLogOutputs)) :
       /\ call' = [op |-> "suggest_degrees", num_outputs |-> num_outputs]
       /\ outcome' = [st |-> "ok", degrees |-> suggest_degrees(num_outputs)]
  /\ UNCHANGED <<rk_bin, io_results_bin>>
  /\ UNCHANGED <<repVars, rsVars, srvVars>>

\* DFSSlotReplicator replicator(cc, degrees, num_slots / num_outputs) on a
\* ring of num_slots slots
SuggestedReplicator ==
  /\ call.op = "suggest_degrees"
  /\ rphase = "new"
  /\ \E num_slots \in Pow2Upto(Shl1(MaxLogOutputs)) :
       LET rho == CDiv(num_slots, call.num_outputs)
           r == DFSSlotReplicator(num_slots, outcome.degrees, rho)
       IN /\ rargs' = [num_slots |-> num_slots,
                       tree_degrees |-> outcome.degrees,
                       input_replication |-> rho]
          /\ rphase' = IF r.st = "ok" THEN "built" ELSE "failed"
          /\ nodes' = r.nodes
  /\ lastop' = "ctor"
  /\ UNCHANGED <<src, ret, produced, rots, batch, before>>
  /\ UNCHANGED <<rsVars, srvVars, cliVars>>

NextSuggest == Suggest \/ SuggestedReplicator

SpecSuggest == Init /\ [][NextSuggest]_vars

\* C20 as stated: for every power of two num_outputs >= 1 the suggested
\* degrees are all at least 2 and multiply to num_outputs, and the
\* constructor accepts them with input_replication = S / num_outputs
C20_SuggestedAccepted ==
  call.op = "suggest_degrees" =>
    /\ \A k \in 1..Len(outcome.degrees) : outcome.degrees[k] >= 2
    /\ Product(outcome.degrees) = call.num_outputs
    /\ lastop = "ctor" /\ call.num_outputs <= rargs.num_slots =>
         rphase = "built"

\* What holds: the degrees always multiply to num_outputs, and from 2
\* outputs on they are at least 2 and accepted on every ring that has at
\* least num_outputs slots
C20_FromTwoOutputs ==
  call.op = "suggest_degrees" =>
    /\ Product(outcome.degrees) = call.num_outputs
    /\ call.num_outputs >= 2 =>
         /\ \A k \in 1..Len(outcome.degrees) : outcome.degrees[k] >= 2
         /\ lastop = "ctor" /\ call.num_outputs <= rargs.num_slots =>
              rphase = "built" /\ Len(nodes) = Len(outcome.degrees)

\* One output on a ring of 8 slots: the suggestion is the single degree 1,
\* and the constructor has thrown
C20_Witness ==
  /\ call = [op |-> "suggest_degrees", num_outputs |-> 1]
  /\ outcome.degrees = <<1>>
  /\ rargs = [num_slots |-> 8, tree_degrees |-> <<1>>, input_replication |-> 8]
  /\ rphase = "failed"

----------------------------------------------------------------------------
(* Trees over 16 and 32 slots, fed with the slots 0, 1, 2, ... *)

\* The input of the scenario: slot s holds s (slots counted from 0)
CountingCt(S) == [slots |-> [s \in 1..S |-> s - 1], level |-> 0]

\* The sequences of degrees 2, 4 and 8 that multiply to n
Factorizations(n) ==
  {degs \in UNION {[1..len -> {2, 4, 8}] : len \in 1..5} : Product(degs) = n}

\* DFSSlotReplicator replicator(cc, degrees, rho) on a ring of 16 or 32
\* slots, with the degrees {4,2,2} or with degrees that multiply to S / rho
ScenarioTree ==
  /\ rphase = "new"
  /\ \E S \in {16, 32}, rho \in {1, 2} :
       \E degs \in Factorizations(S \div rho) \cup {<<4, 2, 2>>} :
         LET r == DFSSlotReplicator(S, degs, rho)
         IN /\ rargs' = [num_slots |-> S, tree_degrees |-> degs,
                         input_replication |-> rho]
            /\ rphase' = IF r.st = "ok" THEN "built" ELSE "failed"
            /\ nodes' = r.nodes
  /\ lastop' = "ctor"
  /\ UNCHANGED <<src, ret, produced, rots, batch, before>>
  /\ UNCHANGED <<rsVars, srvVars, cliVars>>

\* replicator.init(ct) with the counting input, then replicator.next_replica()
\* for as long as a replica comes back
ScenarioPull ==
  /\ rphase = "built"
  /\ lastop = "ctor" \/ ret # Null
  /\ LET ct == CountingCt(rargs.num_slots)
         r == IF lastop = "ctor" THEN init(nodes, Len(nodes), ct)
              ELSE next_replica(nodes, Len(nodes))
     IN /\ nodes' = r.nodes
        /\ ret' = r.ret
        /\ rots' = rots \cup r.rots
        /\ produced' = IF r.ret = Null THEN produced ELSE produced + 1
        /\ src' = ct
  /\ lastop' = IF lastop = "ctor" THEN "init" ELSE "next"
  /\ UNCHANGED <<rphase, rargs, batch, before>>
  /\ UNCHANGED <<rsVars, srvVars, cliVars>>

NextScenario == ScenarioTree \/ ScenarioPull

SpecScenario == Init /\ [][NextScenario]_vars

\* The tree of the scenario
IsE4Tree ==
  rargs = [num_slots |-> 32, tree_degrees |-> <<4, 2, 2>>,
           input_replication |-> 1]

\* After pull number produced (the init being the first) of a tree with
\* rho = 1: a ciphertext with produced - 1 in every slot, or null after as
\* many replicas as there are slots
CountingReplicas ==
  /\ produced <= rargs.num_slots
  /\ lastop \in {"init", "next"} =>
       IF ret = Null THEN produced = rargs.num_slots
       ELSE /\ Len(ret.slots) = rargs.num_slots
            /\ \A s \in 1..rargs.num_slots : ret.slots[s] = produced - 1

\* C21 as stated: the tree with degrees {4,2,2} and rho = 1 over 32 slots,
\* fed with (0,1,...,31), yields 32 replicas on 32 pulls, replica k with k
\* in every slot
C21_ScenarioE4 ==
  IsE4Tree /\ lastop # "none" => rphase = "built" /\ CountingReplicas

\* C21, amended: with degrees {4,2,2} and rho = 1 the constructor throws on
\* 32 slots, and nothing is pulled; over 16 slots, fed with (0,1,...,15),
\* the same tree yields 16 replicas on 16 pulls, replica k with k in every
\* slot, and so does over 32 slots every tree with rho = 1 whose degrees
\* multiply to 32, such as {4,4,2}, with 32 replicas
C21_ScenarioE4Sixteen ==
  /\ IsE4Tree /\ lastop # "none" => rphase = "failed" /\ produced = 0
  /\ lastop # "none" /\ rargs.input_replication = 1 /\
       Product(rargs.tree_degrees) = rargs.num_slots =>
         rphase = "built" /\ CountingReplicas

\* Over 16 slots the 16th pull of the tree {4,2,2} has returned the replica
\* with 15 in every slot
C21_Witness ==
  /\ rargs = [num_slots |-> 16, tree_degrees |-> <<4, 2, 2>>,
              input_replication |-> 1]
  /\ lastop = "next"
  /\ produced = 16
  /\ ret # Null
  /\ \A s \in 1..16 : ret.slots[s] = 15

-----------------------------------------------------------------------------
(* The ranks of the matches, server_encrypted_compute.cpp lines 191-227:    *)
(* the running sums of the match indicator down every column, times the     *)
(* snapshot of the indicator taken before the sums.  The subtraction of 1.0 *)
(* of line 226 is undone to read the value the multiplication left.  The    *)
(* ranks are read when the enumeration starts (enum_i = 1); the loop that   *)
(* follows does not write them.                                             *)

\* The slot of record n after the multiplication by the snapshot
RankSlot(n) ==
  LET S == world.prms.ringDim \div 2
  IN result[(n \div S) + 1].slots[(n % S) + 1] + ONE

\* The rank of a matching record n: its place among the matches of its
\* column in virtual-row order, from 1
RankOf(w, n) ==
  Cardinality({m \in ColumnMatches(w, ColumnOf(w, n)) :
                 VirtualRow(w, m) <= VirtualRow(w, n)})

\* Every slot of the ranked ciphertexts holds, to within 1/8, `unit' times
\* the rank of its record if the record matches, and 0 if it does not or the
\* slot is padding
RanksInUnitsOf(unit) ==
  LET S == world.prms.ringDim \div 2
  IN \A n \in 0..(Len(result) * S - 1) :
       IF n \in Matching(world)
       THEN Abs(RankSlot(n) - RankOf(world, n) * unit) < ONE \div 8
       ELSE RankSlot(n) = 0

\* C22 as stated: after the multiplication by the snapshot the non-matching
\* slots hold 0 and the r-th match of a column holds r/2
C22_RankHalves == (pc = "ranked" /\ enum_i = 1) => RanksInUnitsOf(ONE \div 2)

\* C22: after the multiplication by the snapshot the non-matching slots hold
\* 0 and the r-th match of a column holds r times the square of the scale
\* 0.504 of the indicator, which is r/4 to within 1/8 for the ranks of a run
C22_RankQuarters == (pc = "ranked" /\ enum_i = 1) => RanksInUnitsOf(ONE \div 4)

\* A column with three matches has been ranked
C22_Witness ==
  /\ pc = "ranked"
  /\ enum_i = 1
  /\ \E n \in Matching(world) : RankOf(world, n) = 3

-----------------------------------------------------------------------------
(* The addends of one iteration of the enumeration,                         *)
(* server_encrypted_compute.cpp lines 272-300                               *)

\* The indicator of iteration enum_i (lines 261-264)
IterIndicator ==
  compare_to_number(result, (enum_i * ONE) \div 4 - ONE)

\* Lines 279-295: coordinate j of the payloads of batch k, times the
\* indicator of the batch, j rows down
payload_addend(w, indicator, j, k) ==
  LET payload_part == EvalMult(payload_ctxt(w, k, j), indicator[k + 1])
  IN IF j # 0
     THEN EvalRotate(payload_part, payload_shift(j, getNCols(w.prms)))
     ELSE payload_part

\* All the addends of an iteration, by coordinate and batch
payload_addends(w, indicator) ==
  LET all == [jk \in (0..(PAYLOAD_DIM - 1)) \X (0..(Len(indicator) - 1)) |->
                payload_addend(w, indicator, jk[1], jk[2])]
  IN CHOOSE f \in {all} : f = all

\* The addends that are not zero in slot s
AddendsAt(addends, s) == {jk \in DOMAIN addends : addends[jk].slots[s] # 0}

\* The indicator has at most one slot that is not zero in every column,
\* counted over all its ciphertexts
OnePerColumn(w, indicator) ==
  LET C == getNCols(w.prms)
  IN \A c \in 0..(C - 1) :
       Cardinality({ks \in (1..Len(indicator)) \X (1..getNSlots(w.prms)) :
                      /\ (ks[2] - 1) % C = c
                      /\ indicator[ks[1]].slots[ks[2]] # 0}) <= 1

\* C23: in every iteration, if the indicator has at most one non-zero slot
\* in every column over all the batches, then in every slot at most one of
\* the B * PAYLOAD_DIM addends is not zero, also where a payload wraps past
\* the last row, and to_replicate holds that addend whatever the order of
\* the additions.
C23_OneAddendPerSlot ==
  (pc = "ranked" /\ enum_i <= getMaxNMatch) =>
    LET indicator == IterIndicator
        addends == payload_addends(world, indicator)
        to_replicate == payload_loop(world, indicator, 0, Null)
    IN OnePerColumn(world, indicator) =>
         \A s \in 1..getNSlots(world.prms) :
           LET here == AddendsAt(addends, s)
           IN /\ Cardinality(here) <= 1
              /\ to_replicate.slots[s] =
                   IF here = {} THEN 0
                   ELSE addends[CHOOSE jk \in here : TRUE].slots[s]

\* An iteration over two batches in which the payload of a match wraps past
\* the last row
C23_Witness ==
  /\ pc = "ranked"
  /\ enum_i <= getMaxNMatch
  /\ Len(result) >= 2
  /\ LET indicator == IterIndicator
         addends == payload_addends(world, indicator)
         S == getNSlots(world.prms)
         C == getNCols(world.prms)
     IN /\ OnePerColumn(world, indicator)
        /\ \E s \in 1..S, k \in 1..Len(result), j \in 1..(PAYLOAD_DIM - 1) :
             /\ indicator[k].slots[s] # 0
             /\ (s - 1) + j * C >= S
             /\ <<j, k - 1>> \in AddendsAt(addends, (((s - 1) + j * C) % S) + 1)

-----------------------------------------------------------------------------
(* The masks of the output compression, server_encrypted_compute.cpp lines  *)
(* 310-326                                                                  *)

\* The masks of all the iterations
BlockMasks(prms) ==
  LET all == [i \in 1..getMaxNMatch |-> block_mask(prms, i)]
  IN CHOOSE f \in {all} : f = all

\* What every iteration adds to the accumulator
MaskedParts(w, ranks) ==
  LET all == [i \in 1..getMaxNMatch |-> extract_match(w, ranks, i)]
  IN CHOOSE f \in {all} : f = all

-----------------------------------------------------------------------------
(* total_sums, server_encrypted_compute.cpp lines 462-480, over the two     *)
(* ciphertext objects it holds: ct, its argument, and results, the deep     *)
(* copy of line 470.  EvalRotate returns a new object, tmp, and             *)
(* EvalAddInPlace writes the object results points to.                      *)

\* The loop of lines 474-479 on the objects
RECURSIVE total_sums_objects_loop(_, _, _)
total_sums_objects_loop(objs, i, r) ==
  IF i < 0 THEN objs
  ELSE LET tmp == EvalRotate(objs.results, Shl1(i + r))
           nxt == [objs EXCEPT !.results = EvalAdd(objs.results, tmp)]
       IN AndThen(nxt, total_sums_objects_loop(nxt, i - 1, r))

\* The objects when total_sums returns
total_sums_objects(ct, prms) ==
  LET period == getNCols(prms) * PAYLOAD_DIM
      s == Log2(CDiv(getNSlots(prms), period))
      r == Log2(period)
  IN total_sums_objects_loop([ct |-> ct, results |-> Clone(ct)], s - 1, r)

\* The sum of the slots of ct that lie a multiple of period after slot s,
\* cyclically
RECURSIVE PeriodicSum(_, _, _, _)
PeriodicSum(slots, s, period, m) ==
  IF m = 0 THEN 0
  ELSE slots[((s - 1 + (m - 1) * period) % Len(slots)) + 1]
         + PeriodicSum(slots, s, period, m - 1)

\* The ciphertext an iteration hands to total_sums (line 308)
ToReplicate == payload_loop(world, IterIndicator, 0, Null)

\* C25: slot s of the output of total_sums is the sum over m < M of the
\* input slot (s + m*C*PAYLOAD_DIM) mod S, where M = S / (C*PAYLOAD_DIM), and
\* the input ciphertext is as it was.
C25_TotalSums ==
  (pc = "ranked" /\ enum_i <= getMaxNMatch) =>
    LET ct == ToReplicate
        S == getNSlots(world.prms)
        period == getNCols(world.prms) * PAYLOAD_DIM
        out == total_sums(ct, world.prms)
        objs == total_sums_objects(ct, world.prms)
    IN /\ Len(out.slots) = S
       /\ \A s \in 1..S :
            out.slots[s] = PeriodicSum(ct.slots, s, period, S \div period)
       /\ objs.results = out
       /\ objs.ct = ct

\* total_sums is given a ciphertext whose payload wrapped past the last row
\* and lies in the last and in the first block of its column
C25_Witness ==
  /\ pc = "ranked"
  /\ enum_i <= getMaxNMatch
  /\ LET ct == ToReplicate
         S == getNSlots(world.prms)
         period == getNCols(world.prms) * PAYLOAD_DIM
     IN \E s \in 1..period, t \in (S - period + 1)..S :
          /\ ct.slots[s] # 0
          /\ ct.slots[t] # 0
          /\ total_sums(ct, world.prms).slots[s] # 0

-----------------------------------------------------------------------------
(* The states of the nodes of a replication tree *)

\* The shifted ciphertexts node n holds
HeldBy(n) == {i \in 1..Len(n.shifts) : n.shifts[i] # Null}

\* C26: in every state of a tree, every node has 0 <= current <= f; it has
\* current = f when it holds no source, and while current < f it holds the f
\* shifted ciphertexts of the source it streams from; it never holds more
\* than f ciphertexts, and the tree as a whole never more than the sum of
\* the fan-outs, however many replicas were produced.
C26_NodeStates ==
  rphase = "built" =>
    /\ \A i \in 1..Len(nodes) :
         LET n == nodes[i]
         IN /\ n.current >= 0
            /\ n.current <= n.num_replicas
            /\ n.num_replicas = rargs.tree_degrees[i]
            /\ Len(n.shifts) = n.num_replicas
            /\ n.current < n.num_replicas => HeldBy(n) = 1..n.num_replicas
            /\ HeldBy(n) = {} => needs_source(n)
            /\ needs_source(n) <=> n.current = n.num_replicas
    /\ SumOver(1..Len(nodes), [i \in 1..Len(nodes) |-> Cardinality(HeldBy(nodes[i]))])
         <= SumOver(1..Len(nodes), rargs.tree_degrees)

\* A tree of two levels that has produced more replicas than the sum of its
\* fan-outs, with the root exhausted and the leaf in mid-stream
C26_Witness ==
  /\ rphase = "built"
  /\ Len(nodes) = 2
  /\ produced > SumOver(1..2, rargs.tree_degrees)
  /\ nodes[1].current = nodes[1].num_replicas
  /\ nodes[2].current > 0
  /\ nodes[2].current < nodes[2].num_replicas

-----------------------------------------------------------------------------
(* The order in which the nodes of a tree are asked for replicas *)

\* The replicas node i has returned since the last init, from the positions
\* of the nodes down to it: all but the last replica of its parent were
\* used up, f at a time, and `current` of the last one so far
RECURSIVE Emitted(_, _)
Emitted(ns, i) ==
  IF i = 1 THEN ns[1].current
  ELSE (Emitted(ns, i - 1) - 1) * ns[i].num_replicas + ns[i].current

\* A call of next_replica on a tree with a source.  A node other than the
\* leaf changes only if the node below it had current = f.  A node that
\* changes and had current < f keeps its source and adds 1 to current; one
\* that had current = f is not the root, its parent changes too, and it is
\* left with current = 1.  The root keeps its source in every case.  The
\* replicas counted at the leaf are those its position tells, and when the
\* stream has ended node i has returned f1*...*fi replicas.
PullStep ==
  (rphase = "built" /\ lastop' = "next" /\ src # Null) =>
    LET L == Len(nodes)
    IN /\ \A i \in 1..L :
            nodes'[i] # nodes[i] =>
              /\ i < L => nodes[i + 1].current = nodes[i + 1].num_replicas
              /\ IF nodes[i].current < nodes[i].num_replicas
                 THEN /\ nodes'[i].current = nodes[i].current + 1
                      /\ nodes'[i].shifts = nodes[i].shifts
                 ELSE /\ i > 1
                      /\ nodes'[i - 1] # nodes[i - 1]
                      /\ nodes'[i].current = 1
       /\ nodes'[1].shifts = nodes[1].shifts
       /\ nodes'[1].shifts[1] = src
       /\ produced' = Emitted(nodes', L)
       /\ ret' = Null =>
            \A i \in 1..L :
              Emitted(nodes', i) = Product(SubSeq(rargs.tree_degrees, 1, i))

\* A call of init with a ciphertext: the root's source is that ciphertext
\* and every node has returned one replica
InitStep ==
  (rphase = "built" /\ lastop' = "init") =>
    /\ nodes'[1].shifts[1] = src'
    /\ \A i \in 1..Len(nodes) : nodes'[i].current = 1 /\ Emitted(nodes', i) = 1

\* C27: during an enumeration a node asks its parent for a replica only when
\* its own current equals its fan-out, so every source of the parent gives f
\* replicas of the child in a row before the parent moves on; the node at
\* level i returns f1*...*fi replicas in all; and the root's source is
\* installed by init and by nothing else.
C27_ParentOnlyWhenEmpty == [][PullStep /\ InitStep]_vars

\* A tree of three levels in which the root has moved on to its second
\* replica and the two nodes below stream its first replicas anew
C27_Witness ==
  /\ rphase = "built"
  /\ lastop = "next"
  /\ Len(nodes) = 3
  /\ nodes[1].current = 2
  /\ nodes[2].current = 1
  /\ nodes[3].current = 1
  /\ produced = 1 + nodes[2].num_replicas * nodes[3].num_replicas

-----------------------------------------------------------------------------
(* init on a tree that already streams *)

\* The tree as the constructor left it
FreshNodes ==
  DFSSlotReplicator(rargs.num_slots, rargs.tree_degrees,
                    rargs.input_replication).nodes

SlotValues(ct) == {ct.slots[s] : s \in 1..Len(ct.slots)}

\* init with a ciphertext, in any state of the tree: the nodes and the value
\* returned are those of the same init on the tree as constructed, and the
\* value is replica 0 of the new source
RestartStep ==
  (rphase = "built" /\ lastop' = "init") =>
    LET fresh == init(FreshNodes, Len(nodes), src')
    IN /\ nodes' = fresh.nodes
       /\ ret' = fresh.ret
       /\ ret' # Null
       /\ produced' = 1
       /\ SlotValues(ret') \subseteq SlotValues(src')
       /\ IsPeriodic(src', PatternLen) => AllSlotsEqual(ret', src'.slots[1])

\* The pulls that follow: replicas 1..P-1 of the source of the last init,
\* then end
PullAfterInit ==
  (rphase = "built" /\ lastop' = "next" /\ src # Null) =>
    IF produced < PatternLen
    THEN /\ ret' # Null
         /\ produced' = produced + 1
         /\ SlotValues(ret') \subseteq SlotValues(src)
         /\ IsPeriodic(src, PatternLen) => AllSlotsEqual(ret', src.slots[produced'])
    ELSE ret' = Null

\* init with a null ciphertext
NullInitStep ==
  (rphase = "built" /\ lastop' = "init_null") =>
    /\ ret' = Null
    /\ nodes' = nodes
    /\ produced' = produced
    /\ src' = src

\* C28: init(ct') with a non-null ct' restarts the stream in every state of
\* the tree (before any pull, in mid-stream, after the end): it returns
\* replica 0 of ct', the next P-1 pulls return the replicas 1..P-1 of ct' and
\* the pull after them returns end, and no slot of any of them holds a value
\* of a source installed before; init with a null ciphertext returns end and
\* leaves every node as it was.
C28_InitRestarts == [][RestartStep /\ PullAfterInit /\ NullInitStep]_vars

\* The stream of a second source, installed when the first was in
\* mid-stream, has ended after its P replicas
C28_Witness ==
  /\ rphase = "built"
  /\ Len(nodes) >= 2
  /\ before.src # Null
  /\ before.src # src
  /\ before.produced > 1
  /\ before.produced < PatternLen
  /\ lastop = "next"
  /\ ret = Null
  /\ produced = PatternLen

\* The stream of a source was restarted after it had ended
C28_WitnessAfterEnd ==
  /\ rphase = "built"
  /\ before.src # Null
  /\ before.produced = PatternLen
  /\ lastop = "init"
  /\ ret # Null

-----------------------------------------------------------------------------
(* The names of the ciphertext files of the batches: what the server opens, *)
(* server_encrypted_compute.cpp lines 361-370 and 483-489, and what         *)
(* client_encode_encrypt_db.cpp, lines 75-102, writes.  A name is the       *)
(* sequence of the parts the code concatenates under encdir().  The query   *)
(* is encdir()/"query.bin" in client_encode_encrypt_query.cpp, line 51, and *)
(* in the server, line 143.                                                 *)

\* The decimal digits of n >= 0, the first one first
RECURSIVE Decimal(_)
Decimal(n) == IF n < 10 THEN <<n>> ELSE Append(Decimal(n \div 10), n % 10)

\* ss << std::setw(4) << std::setfill('0') << n: zeros to the left up to a
\* width of 4, and every digit of a longer number
setw4(n) ==
  LET ds == Decimal(n)
  IN IF Len(ds) >= 4 THEN ds ELSE [i \in 1..(4 - Len(ds)) |-> 0] \o ds

\* The row file with the indexes the other way round
row_name_Swapped(j, i) == <<"batch", setw4(i), "row_", setw4(j), ".bin">>

\* mat_vec_mult, lines 361-370: the row of replica i in batch j
row_name(j, i) == <<"batch", setw4(j), "row_", setw4(i), ".bin">>

\* get_encrypted_payload(datadir, batch, idx), lines 485-489
payload_name(k, idx) == <<"batch", setw4(k), "payload_", setw4(idx), ".bin">>

\* The files of batch j a full run of the server opens when the replicator
\* gives n_replicas replicas: the row of every replica and the payloads of
\* every iteration (lines 272-278)
server_batch_files(j, n_replicas) ==
  {row_name(j, i) : i \in 0..(n_replicas - 1)} \cup
  {payload_name(j, idx) : idx \in 0..(PAYLOAD_DIM - 1)}

\* client_encode_encrypt_db, lines 75-102: the files of batch i, rows
\* j < getRecordDim() and payloads j < PAYLOAD_DIM
encoder_batch_files(prms, i) ==
  {<<"batch", setw4(i), "row_", setw4(j), ".bin">> : j \in 0..(prms.recordDim - 1)} \cup
  {<<"batch", setw4(i), "payload_", setw4(j), ".bin">> : j \in 0..(PAYLOAD_DIM - 1)}

\* The loop of mat_vec_mult has ended: the replicator returned null
PullsEnded ==
  /\ call.op = "InstanceParams"
  /\ rphase = "built"
  /\ lastop = "next"
  /\ ret = Null

\* C29: for each of the four instances, the ciphertext files a full run of
\* the server opens - query.bin, batch<j>/row_<i>.bin for every batch j < B
\* and every index i of a replica, batch<k>/payload_<j>.bin for k < B and
\* j < PAYLOAD_DIM, the indexes in 4 digits with zeros to the left - are
\* exactly the files the two encoders write; the server asks for no row
\* index >= d and no batch index >= B.
C29_FilesMatch ==
  (call.op = "InstanceParams" /\ rphase = "built") =>
    LET prms == outcome.prms
        S == prms.ringDim \div 2
        B == getNCtxts(prms)
        d == prms.recordDim
    IN /\ produced <= d
       /\ B * S >= prms.dbSize /\ (B - 1) * S < prms.dbSize
       /\ PullsEnded =>
            /\ \A j \in 0..(B - 1) :
                 LET opened == server_batch_files(j, produced)
                 IN /\ opened = encoder_batch_files(prms, j)
                    /\ Cardinality(opened) = d + PAYLOAD_DIM
                    /\ \A f \in opened : Len(f[2]) = 4 /\ Len(f[4]) = 4
            /\ Cardinality({setw4(j) : j \in 0..(B - 1)}) = B

\* The loop of mat_vec_mult of the largest instance has ended after 512
\* replicas, with the rows of 611 batches read
C29_Witness ==
  /\ PullsEnded
  /\ call.size = LARGE
  /\ produced = 512
  /\ getNCtxts(outcome.prms) = 611
  /\ row_name(610, 511) \in server_batch_files(610, produced)

-----------------------------------------------------------------------------
(* The levels of the masks of a running-sums plan, running_sums.cpp lines   *)
(* 99-125.  A level is the number MakeCKKSPackedPlaintext and GetLevel use: *)
(* 0 for a fresh ciphertext and one more after every multiplication.        *)

\* Every mask of phase p is encoded at level first + step * (p - 1)
MaskLevels(first, step) ==
  \A p \in 1..Len(rs_masks) : \A amt \in DOMAIN rs_masks[p] :
    rs_masks[p][amt].level = first + step * (p - 1)

\* C30 as stated: the masks of phase p are encoded at the level of the input
\* ciphertexts - 1 - (p-1), the input level being the top_level given to the
\* constructor
C30_MaskLevelsBelow == sphase = "built" => MaskLevels(sargs.level - 1, -1)

\* C30: the masks of phase p are encoded at top_level + (p-1), top_level
\* being the level of the input ciphertexts given to the constructor: the
\* masks of the first phase at the input level itself, those of every later
\* phase one multiplication further, which is the level of the ciphertexts
\* that phase multiplies; the ciphertexts come out Len(masks) levels after
\* the input.
C30_MaskLevels ==
  /\ sphase \in {"built", "evaluated"} => MaskLevels(sargs.level, 1)
  /\ sphase = "evaluated" =>
       \A k \in 1..Len(ctxts) :
         ctxts[k].level = inputs[k].level + Len(rs_masks)

\* A plan of three phases for ciphertexts that are not fresh
C30_Witness ==
  /\ sphase = "built"
  /\ Len(rs_masks) = 3
  /\ sargs.level = 1
  /\ \E amt \in DOMAIN rs_masks[3] : rs_masks[3][amt].level = 3

=============================================================================
